---- MODULE Spec2Model ----
(***************************************************************************)
(* Model of the retrying HTTP transport of amazon-connect-pstn-transfer:   *)
(* the Go client (httpclient.go, retryHTTPClient.Do) and the TypeScript    *)
(* client (lambdas/pstn-transfer-ts/src/httpclient.ts,                     *)
(* RetryHTTPClient.fetch).  One logical send is one behaviour: the         *)
(* variable impl selects the implementation that executes it.              *)
(*                                                                         *)
(* Strings that the code builds by concatenation are sequences of chunks:  *)
(* the empty string is << >> and "Bearer " + token is <<"Bearer ">> \o     *)
(* token.  Time is counted in abstract units of the backoff timer.         *)
(*                                                                         *)
(* SpecToken models the OAuth2 token cache and fetcher (auth.go, auth.ts)  *)
(* with a clock in half-second ticks; SpecResolve evaluates the auth       *)
(* header resolver on every shape of AuthConfig.                           *)
(*                                                                         *)
(* SpecBackoff evaluates the backoff function in the width of its type: a  *)
(* duration is a mantissa and a binary exponent.  SpecAuth runs the send   *)
(* with the token request inside it, on the fetcher's own client.          *)
(* SpecConc runs concurrent callers of the token cache: threads under the  *)
(* RWMutex in Go, tasks between awaits in TypeScript.                      *)
(*                                                                         *)
(* SpecLive is Spec under the fairness of its steps, for termination.      *)
(* SpecEquiv sends one request through Do and then through fetch, on the   *)
(* same outcomes and cancellations.                                        *)
(***************************************************************************)
EXTENDS Integers, Sequences, FiniteSets, TLC

\* ---------------------------------------------------------------- bounds
MaxRetriesBound == 2
MaxSteps == 3
BaseDelay == 4
JitterGrain == 2
MaxAttemptArg == 61
JitterBits == 2
MaxTokenRetries == 1
NumThreads == 2

\* -------------------------------------------------------------- constants
Impl == {"go", "ts"}
\* statuses a server answers with in the transport model
StatusSet == {200, 302, 400, 408, 429, 500}
\* statuses the classifier is evaluated on
AllStatuses == 100..599
\* transport-level failures of one network call that are not cancellations
NetErrors == {"reset", "timeout"}
\* a request body: absent, empty, or two bytes
Bodies == { [present |-> FALSE, data |-> << >>, pos |-> 0],
            [present |-> TRUE,  data |-> << >>, pos |-> 0],
            [present |-> TRUE,  data |-> <<7, 9>>, pos |-> 0] }
\* the caller's Authorization header: absent, present and empty, present
Headers == { [has |-> FALSE, val |-> << >>],
             [has |-> TRUE,  val |-> << >>],
             [has |-> TRUE,  val |-> <<"Bearer ", "existing-token">>] }

VARIABLES
    impl,          \* "go" or "ts"
    maxRetries,    \* c.maxRetries / this.maxRetries
    authConfig,    \* c.authConfig / this.authConfig
    reqHeader,     \* Authorization header of the caller's request
    reqBody,       \* req.Body, a stream with a read position
    cancelled,     \* req.Context().Err() != nil / request.signal.aborted
    pc,            \* position of the send: start, backoff, prepare, await, done
    attempt,       \* loop variable attempt
    bodyBytes,     \* the captured body
    lastErr,       \* lastErr
    lastResp,      \* lastResp (its status; 0 is nil)
    result,        \* what the send returned
    calls,         \* network calls issued on the wire
    inflight,      \* the current attempt's request is on the wire
    wire,          \* the requests sent on the wire, in order
    outcomes,      \* outcome of every completed attempt, in order
    resolverCalls, \* invocations of getAuthHeader
    fetcherCalls,  \* invocations of TokenFetcher.GetToken
    lastDelay,     \* delay chosen by the latest backoff
    waited,        \* time the latest backoff actually waited
    sleepCancelAt, \* time into the latest backoff at which cancellation fired, -1 if none
    sleeps,        \* the backoffs of this send so far: delay chosen and time waited
    startCancelled, \* the cancellation signal was triggered when the send was invoked
    first,         \* what the Go send did with the request the TypeScript send now gets
    authFailed,    \* the latest auth header resolution returned an error
    authOut,       \* what the latest auth header resolution returned
    tokOutcome,    \* what the latest TokenFetcher call handed to the resolver
    cache,         \* tokenCache.cache / TokenCache.cache: key -> entry
    now,           \* the wall clock, in ticks
    steps,         \* operations and clock advances so far
    tokLast,       \* the latest cache or fetcher operation and what it returned
    setLog,        \* per key, the instant and lifetime of the latest store
    boAttempt,     \* backoff function input: attempt
    boBase,        \* backoff function input: base delay
    boRand,        \* backoff function input: the random draw, in 2^-JitterBits
    boOut,         \* backoff function output
    depth,         \* 1 in the caller's send, 2 in the token request it triggered
    saved,         \* the caller's send while the token request runs
    tokenSend,     \* how the latest token request went
    threads,       \* concurrent callers of the token cache: operation and position
    rw,            \* tc.mu: the readers and the writer holding the lock
    clsErr,        \* classifier input: a transport error is present
    clsStatus,     \* classifier input: status code
    clsOut         \* classifier output: "unset", "true", "false"

config  == <<impl, maxRetries, authConfig, reqHeader, startCancelled, first>>
loop    == <<attempt, bodyBytes, lastErr, lastResp>>
netw    == <<calls, inflight, wire, outcomes>>
authv   == <<resolverCalls, fetcherCalls, authFailed, authOut, tokOutcome>>
tokv    == <<cache, now, steps, tokLast, setLog>>
bov     == <<boAttempt, boBase, boRand, boOut>>
stackv  == <<depth, saved, tokenSend>>
concv   == <<threads, rw>>
sleepv  == <<lastDelay, waited, sleepCancelAt, sleeps>>
clsv    == <<clsErr, clsStatus, clsOut>>
vars    == <<config, reqBody, cancelled, pc, loop, result, netw, authv, sleepv, clsv, tokv,
             bov, stackv, concv>>

\* ------------------------------------------------------------ data values
Str(b) == IF b THEN "true" ELSE "false"

Err(kind, attempts, net, status) ==
    [kind |-> kind, attempts |-> attempts, net |-> net, status |-> status]
NoErr == Err("none", 0, "none", 0)
NoResult == [kind |-> "none", status |-> 0, err |-> NoErr]
Response(status) == [kind |-> "response", status |-> status, err |-> NoErr]
Failure(e) == [kind |-> "error", status |-> 0, err |-> e]

\* lastErr values
NoLastErr == [set |-> FALSE, net |-> "none", status |-> 0]
NetLastErr(n) == [set |-> TRUE, net |-> n, status |-> 0]
StatusLastErr(s) == [set |-> TRUE, net |-> "none", status |-> s]

\* outcome of one attempt
NetOutcome(n, sent) == [net |-> n, status |-> 0, sent |-> sent]
StatusOutcome(s) == [net |-> "none", status |-> s, sent |-> TRUE]

NilAuth == [set |-> FALSE, APIKey |-> << >>, OAuthClientID |-> << >>,
            OAuthClientSecret |-> << >>, Region |-> << >>, TokenFetcher |-> FALSE]
AuthConfigs ==
    { NilAuth,
      [NilAuth EXCEPT !.set = TRUE],
      [NilAuth EXCEPT !.set = TRUE, !.APIKey = <<"key">>],
      [NilAuth EXCEPT !.set = TRUE, !.OAuthClientID = <<"id">>,
                      !.OAuthClientSecret = <<"secret">>,
                      !.Region = <<"us-west-2-prod">>, !.TokenFetcher = TRUE],
      [NilAuth EXCEPT !.set = TRUE, !.OAuthClientID = <<"id">>,
                      !.OAuthClientSecret = <<"secret">>,
                      !.Region = <<"us-west-2-prod">>, !.TokenFetcher = FALSE,
                      !.APIKey = <<"key">>],
      [NilAuth EXCEPT !.set = TRUE, !.OAuthClientID = <<"id">>,
                      !.Region = <<"us-west-2-prod">>, !.TokenFetcher = TRUE],
      [NilAuth EXCEPT !.set = TRUE, !.OAuthClientSecret = <<"secret">>,
                      !.Region = <<"us-west-2-prod">>, !.TokenFetcher = TRUE,
                      !.APIKey = <<"key">>] }

\* what TokenFetcher.GetToken hands back: a token or an error
TokenOutcomes == { [ok |-> TRUE, token |-> <<"tok">>], [ok |-> FALSE, token |-> << >>] }

\* the resolver has not run yet
NoAuthOut == [err |-> "", header |-> << >>, fetched |-> FALSE]
NoTokenOutcome == [ok |-> FALSE, token |-> << >>]

\* every AuthConfig value by which fields are empty
AllAuthConfigs ==
    { [set |-> st, APIKey |-> k, OAuthClientID |-> id, OAuthClientSecret |-> sec,
       Region |-> r, TokenFetcher |-> f] :
        st \in BOOLEAN, k \in {<< >>, <<"key">>}, id \in {<< >>, <<"id">>},
        sec \in {<< >>, <<"secret">>}, r \in {<< >>, <<"us-west-2-prod">>},
        f \in BOOLEAN }

\* --------------------------------------------- token cache: data values
\* the Go fetcher is called with (authDomain, clientID), the TypeScript one
\* with (region, clientID): Regions stands for either first argument
Regions == {"r1", "r2"}
ClientIDs == {"c1", "c2"}
\* ticks per second: a tick is half a second, so that half of a whole number
\* of seconds is a whole number of ticks
Second == 2
\* a buffer that postpones the expiry
SafetyBuffer_Negative == -300 * Second

\* safetyBuffer := 5 * time.Minute / safetyBufferSeconds = 5 * 60
SafetyBuffer == 300 * Second

\* bodies of a token endpoint response: not JSON, or a JSON object in which
\* access_token is missing, empty or a token, and expires_in is an integer
\* (missing decodes to 0 in Go and compares like 0 in TypeScript)
ExpiresInSet == {-1, 0, 1, 300, 301}
AccessTokens == {<<"tokA">>, <<"tokB">>}
TokenBody(json, has, tok, exp) ==
    [json |-> json, hasToken |-> has, access_token |-> tok, expires_in |-> exp]
TokenBodies ==
    { TokenBody(FALSE, FALSE, << >>, 0),
      TokenBody(TRUE, FALSE, << >>, 301),
      TokenBody(TRUE, TRUE, << >>, 301) }
    \cup { TokenBody(TRUE, TRUE, t, e) : t \in AccessTokens, e \in ExpiresInSet }
\* what the POST to the token endpoint ends in: a transport error (the
\* cancellation of ctx included) or a response
TokenExchanges ==
    { [err |-> e, status |-> 0, body |-> TokenBody(FALSE, FALSE, << >>, 0)] :
        e \in {"cancelled", "reset"} }
    \cup { [err |-> "none", status |-> 200, body |-> b] : b \in TokenBodies }
    \cup { [err |-> "none", status |-> st, body |-> TokenBody(TRUE, FALSE, << >>, 0)] :
        st \in {401, 403} }
NoExchange == [err |-> "unsent", status |-> 0, body |-> TokenBody(FALSE, FALSE, << >>, 0)]

NoSet == [set |-> FALSE, t0 |-> 0, ttl |-> 0, token |-> << >>, region |-> "", clientID |-> ""]
\* ------------------------------------------------ token cache: operators
NoEntry == [present |-> FALSE, token |-> << >>, expiresAt |-> 0]
Entry(token, expiresAt) == [present |-> TRUE, token |-> token, expiresAt |-> expiresAt]

\* a key that leaves the client id out
cacheKey_Shared(clientID) == <<"pstn-transfer:tokencache:", "">>

\* auth.go: the cache is keyed by client id
cacheKey(clientID) == <<"pstn-transfer:tokencache:", clientID>>
\* auth.ts: keyed by region and client id
TokenCache_cacheKey(region, clientID) == <<"pstn-transfer:tokencache:", region, ":", clientID>>

CacheKeys ==
    { cacheKey(c) : c \in ClientIDs }
    \cup { TokenCache_cacheKey(r, c) : r \in Regions, c \in ClientIDs }

\* a lookup whose hits are reported as misses
Hit_Dropped(token) == [hit |-> FALSE, token |-> << >>]

\* a lookup result: Go returns "" and TypeScript null on a miss
Hit(token) == [hit |-> TRUE, token |-> token]
Miss == [hit |-> FALSE, token |-> << >>]

\* a lookup that still serves the entry at the instant of its expiry
GetCachedToken_NonStrict(c, clientID, t) ==
    LET entry == c[cacheKey(clientID)] IN
    IF entry.present /\ entry.token # << >> /\ t <= entry.expiresAt
    THEN Hit(entry.token) ELSE Miss

\* TokenCache.GetCachedToken, auth.go
GetCachedToken(c, clientID, t) ==
    LET entry == c[cacheKey(clientID)] IN
    IF entry.present /\ entry.token # << >> /\ t < entry.expiresAt
    THEN Hit(entry.token) ELSE Miss

\* a buffer that is halved only below five minutes, not at five minutes
SetToken_safetyBuffer_Strict(expiresIn) ==
    IF expiresIn < SafetyBuffer THEN expiresIn \div 2 ELSE SafetyBuffer

\* SetToken: the safety buffer, halved for a lifetime of five minutes or less
SetToken_safetyBuffer(expiresIn) ==
    IF expiresIn <= SafetyBuffer THEN expiresIn \div 2 ELSE SafetyBuffer

\* a SetToken that keeps the token for its whole lifetime
SetToken_NoBuffer(c, clientID, token, expiresIn, t) ==
    [c EXCEPT ![cacheKey(clientID)] = Entry(token, t + expiresIn)]

\* TokenCache.SetToken, auth.go (expiresIn in ticks)
SetToken(c, clientID, token, expiresIn, t) ==
    LET safetyBuffer == SetToken_safetyBuffer(expiresIn)
    IN [c EXCEPT ![cacheKey(clientID)] = Entry(token, t + (expiresIn - safetyBuffer))]

\* a clear that empties the whole map
ClearToken_All(c, clientID) == [k \in DOMAIN c |-> NoEntry]

\* TokenCache.ClearToken, auth.go
ClearToken(c, clientID) == [c EXCEPT ![cacheKey(clientID)] = NoEntry]

\* a lookup that does not look at the expiry
TokenCache_getToken_NoExpiry(c, region, clientID, t) ==
    LET entry == c[TokenCache_cacheKey(region, clientID)] IN
    IF entry.present /\ entry.token # << >>
    THEN Hit(entry.token) ELSE Miss

\* TokenCache.getToken, auth.ts
TokenCache_getToken(c, region, clientID, t) ==
    LET entry == c[TokenCache_cacheKey(region, clientID)] IN
    IF entry.present /\ entry.token # << >> /\ t < entry.expiresAt
    THEN Hit(entry.token) ELSE Miss

\* a setToken without the short-lifetime guard
TokenCache_setToken_Unguarded(c, region, clientID, token, expiresInSeconds, t) ==
    [c EXCEPT ![TokenCache_cacheKey(region, clientID)] =
         Entry(token, t + (expiresInSeconds - 5 * 60) * Second)]

\* TokenCache.setToken, auth.ts (expiresInSeconds in seconds)
TokenCache_setToken(c, region, clientID, token, expiresInSeconds, t) ==
    IF expiresInSeconds <= 300 THEN c
    ELSE [c EXCEPT ![TokenCache_cacheKey(region, clientID)] =
              Entry(token, t + (expiresInSeconds - 5 * 60) * Second)]

\* TokenCache.clearToken, auth.ts
TokenCache_clearToken(c, region, clientID) ==
    [c EXCEPT ![TokenCache_cacheKey(region, clientID)] = NoEntry]

\* the key an implementation files (region, clientID) under
KeyOf(i, region, clientID) ==
    IF i = "go" THEN cacheKey(clientID) ELSE TokenCache_cacheKey(region, clientID)

\* what one call returns and leaves in the cache; an error is its cause and,
\* for a status error, the status code and body its message is built from
NoBody == [json |-> FALSE, hasToken |-> FALSE, access_token |-> << >>, expires_in |-> 0]
TokOk(token, exchanges, c) ==
    [ok |-> TRUE, token |-> token, cause |-> "", status |-> 0, errBody |-> NoBody,
     exchanges |-> exchanges, cache |-> c]
TokFail(cause, c) ==
    [ok |-> FALSE, token |-> << >>, cause |-> cause, status |-> 0, errBody |-> NoBody,
     exchanges |-> 1, cache |-> c]
TokStatusFail(status, body, c) ==
    [ok |-> FALSE, token |-> << >>, cause |-> "status", status |-> status, errBody |-> body,
     exchanges |-> 1, cache |-> c]
TokMiss(c) ==
    [ok |-> FALSE, token |-> << >>, cause |-> "", status |-> 0, errBody |-> NoBody,
     exchanges |-> 0, cache |-> c]

EmptyCache == [k \in CacheKeys |-> NoEntry]
EmptySetLog == [k \in CacheKeys |-> NoSet]
NoTokLast ==
    [op |-> "none", region |-> "", clientID |-> "", ok |-> FALSE, token |-> << >>,
     cause |-> "", status |-> 0, errBody |-> NoBody, exchanges |-> 0,
     exchange |-> NoExchange, at |-> 0, before |-> EmptyCache]

\* the token cache is not in use
TokenIdle ==
    /\ cache = EmptyCache
    /\ now = 0
    /\ steps = 0
    /\ tokLast = NoTokLast
    /\ setLog = EmptySetLog

\* ------------------------------------------------ idle parts of a run
\* the backoff function is not under evaluation
NoNum == [set |-> FALSE, m |-> 0, e |-> 0]
BackoffIdle ==
    /\ boAttempt = 0
    /\ boBase = 0
    /\ boRand = 0
    /\ boOut = NoNum

\* no send has been run before this one
NoFirst == [set |-> FALSE, calls |-> 0, result |-> NoResult, outcomes |-> << >>, cancels |-> << >>]

\* no token request is running
NoFrame ==
    [set |-> FALSE, authConfig |-> 0, reqHeader |-> 0, reqBody |-> 0, loop |-> 0,
     netw |-> 0, sleepv |-> 0, authv |-> 0, cancelled |-> FALSE, cache |-> 0]
NoTokenSend ==
    [set |-> FALSE, calls |-> 0, outcomes |-> << >>, result |-> 0,
     waited |-> 0, sleepCancelAt |-> -1, cancelledBefore |-> FALSE,
     cancelledAfter |-> FALSE, cacheBefore |-> 0, apiCallsBefore |-> 0]
StackIdle ==
    /\ depth = 1
    /\ saved = NoFrame
    /\ tokenSend = NoTokenSend

\* no concurrent callers
ConcIdle ==
    /\ threads = << >>
    /\ rw = [readers |-> {}, writer |-> 0]

\* ------------------------------------------------------- pure functions
\* a classifier that also retries 4xx client errors
IsRetryableError_Retry4xx(err, statusCode) ==
    IF err THEN TRUE
    ELSE statusCode >= 400 /\ statusCode < 600

\* IsRetryableError, httpclient.go
IsRetryableError(err, statusCode) ==
    IF err THEN TRUE
    ELSE statusCode >= 500 /\ statusCode < 600

\* isRetryableError, httpclient.ts
isRetryableError(err, statusCode) ==
    IF err THEN TRUE
    ELSE (statusCode >= 500 /\ statusCode < 600) \/ statusCode = 429 \/ statusCode = 408

RECURSIVE Pow2(_)
Pow2(n) == IF n <= 0 THEN 1 ELSE 2 * Pow2(n - 1)

\* a backoff that doubles once too often
ExponentialBackoff_OneIndexed(att, baseDelay, k) ==
    LET delay == Pow2(att + 1) * baseDelay
        jitter == (k * delay) \div (4 * JitterGrain)
    IN delay + jitter

\* ExponentialBackoff, httpclient.go; rand.Float64() is k / JitterGrain
ExponentialBackoff(att, baseDelay, k) ==
    LET delay == Pow2(att) * baseDelay
        jitter == (k * delay) \div (4 * JitterGrain)
    IN delay + jitter

\* exponentialBackoff, httpclient.ts; Math.random() is k / JitterGrain and
\* setTimeout truncates the delay to whole units
exponentialBackoff(att, baseDelayMs, k) ==
    LET delay == Pow2(att) * baseDelayMs
        jitter == (k * delay) \div (4 * JitterGrain)
    IN delay + jitter

\* the JavaScript error a failed fetch rejects with
TsError(n) ==
    CASE n = "abort"   -> [isError |-> TRUE, name |-> "AbortError", message |-> "This operation was aborted"]
      [] n = "timeout" -> [isError |-> TRUE, name |-> "Error", message |-> "request timeout after 10000ms"]
      [] OTHER         -> [isError |-> TRUE, name |-> "TypeError", message |-> "fetch failed"]

\* a pattern that also takes the timeout message for an abort
MatchesAbortPattern_Timeout(message) ==
    message \in {"This operation was aborted", "request timeout after 10000ms"}

\* /aborted|cancelled|canceled/i on the messages above
MatchesAbortPattern(message) == message \in {"This operation was aborted"}

\* isAbortError, httpclient.ts
isAbortError(err) ==
    IF ~err.isError THEN FALSE
    ELSE err.name = "AbortError" \/ err.name = "AbortedError" \/ MatchesAbortPattern(err.message)

\* io.ReadAll(req.Body): everything from the read position to the end
ReadAll(body) == SubSeq(body.data, body.pos + 1, Len(body.data))

\* http.Header.Get / Headers.get: the value, empty when the header is absent
HeaderGet(h) == IF h.has THEN h.val ELSE << >>
HeaderSet(h, v) == [has |-> TRUE, val |-> v]

\* a header that leaves the key out: the scheme word alone
ApiKeyHeader_NoKey(key) == <<"ApiKey ">>

\* fmt.Sprintf("ApiKey %s", c.authConfig.APIKey)
ApiKeyHeader(key) == <<"ApiKey ">> \o key

\* a resolver that prefers the static key whenever one is configured
getAuthHeader_ApiKeyFirst(cfg, tok) ==
    IF cfg.set /\ cfg.APIKey # << >>
    THEN [err |-> "", header |-> <<"ApiKey ">> \o cfg.APIKey, fetched |-> FALSE]
    ELSE IF cfg.set /\ cfg.OAuthClientID # << >> /\ cfg.OAuthClientSecret # << >>
            /\ cfg.TokenFetcher /\ cfg.Region # << >> /\ tok.ok
    THEN [err |-> "", header |-> <<"Bearer ">> \o tok.token, fetched |-> TRUE]
    ELSE [err |-> "no authentication configured", header |-> << >>, fetched |-> FALSE]

\* getAuthHeader, httpclient.go
getAuthHeader(cfg, tok) ==
    IF ~cfg.set THEN [err |-> "authConfig is required", header |-> << >>, fetched |-> FALSE]
    ELSE IF cfg.OAuthClientID # << >> /\ cfg.OAuthClientSecret # << >>
    THEN IF ~cfg.TokenFetcher
         THEN [err |-> "tokenFetcher is required for OAuth authentication", header |-> << >>, fetched |-> FALSE]
         ELSE IF cfg.Region = << >>
         THEN [err |-> "region is required for OAuth authentication", header |-> << >>, fetched |-> FALSE]
         ELSE IF ~tok.ok
         THEN [err |-> "error fetching OAuth token", header |-> << >>, fetched |-> TRUE]
         ELSE [err |-> "", header |-> <<"Bearer ">> \o tok.token, fetched |-> TRUE]
    ELSE IF cfg.APIKey # << >>
    THEN [err |-> "", header |-> ApiKeyHeader(cfg.APIKey), fetched |-> FALSE]
    ELSE [err |-> "no authentication configured", header |-> << >>, fetched |-> FALSE]

\* a resolver that uses the static key when the OAuth settings are incomplete
RetryHTTPClient_getAuthHeader_Fallback(cfg, tok) ==
    IF cfg.set /\ cfg.OAuthClientID # << >> /\ cfg.OAuthClientSecret # << >>
       /\ cfg.TokenFetcher /\ cfg.Region # << >>
    THEN IF tok.ok
         THEN [err |-> "", header |-> <<"Bearer ">> \o tok.token, fetched |-> TRUE]
         ELSE [err |-> "token fetch failed", header |-> << >>, fetched |-> TRUE]
    ELSE IF cfg.set /\ cfg.APIKey # << >>
    THEN [err |-> "", header |-> <<"ApiKey ">> \o cfg.APIKey, fetched |-> FALSE]
    ELSE [err |-> "no authentication configured", header |-> << >>, fetched |-> FALSE]

\* RetryHTTPClient.getAuthHeader, httpclient.ts (authDomain is the Region field)
RetryHTTPClient_getAuthHeader(cfg, tok) ==
    IF ~cfg.set THEN [err |-> "authConfig is required", header |-> << >>, fetched |-> FALSE]
    ELSE IF cfg.OAuthClientID # << >> /\ cfg.OAuthClientSecret # << >>
    THEN IF ~cfg.TokenFetcher
         THEN [err |-> "tokenFetcher is required for OAuth authentication", header |-> << >>, fetched |-> FALSE]
         ELSE IF cfg.Region = << >>
         THEN [err |-> "authDomain is required for OAuth authentication", header |-> << >>, fetched |-> FALSE]
         ELSE IF ~tok.ok
         THEN [err |-> "token fetch failed", header |-> << >>, fetched |-> TRUE]
         ELSE [err |-> "", header |-> <<"Bearer ">> \o tok.token, fetched |-> TRUE]
    ELSE IF cfg.APIKey # << >>
    THEN [err |-> "", header |-> <<"ApiKey ">> \o cfg.APIKey, fetched |-> FALSE]
    ELSE [err |-> "no authentication configured", header |-> << >>, fetched |-> FALSE]

\* ------------------------------------------------------------------ Init
\* the retry counts a client can be built with: HTTP_MAX_RETRIES is read by
\* GetIntFromEnv / getIntFromEnv, which return any integer that parses, a
\* negative one included
RetryCounts == -1..MaxRetriesBound

Init ==
    /\ impl \in Impl
    /\ maxRetries \in RetryCounts
    /\ authConfig \in AuthConfigs
    /\ reqHeader \in Headers
    /\ reqBody \in Bodies
    /\ cancelled \in BOOLEAN
    /\ startCancelled = cancelled
    /\ first = NoFirst
    /\ authFailed = FALSE
    /\ authOut = NoAuthOut
    /\ tokOutcome = NoTokenOutcome
    /\ TokenIdle
    /\ BackoffIdle
    /\ StackIdle
    /\ ConcIdle
    /\ pc = "start"
    /\ attempt = 0
    /\ bodyBytes = [nil |-> TRUE, bytes |-> << >>]
    /\ lastErr = NoLastErr
    /\ lastResp = 0
    /\ result = NoResult
    /\ calls = 0
    /\ inflight = FALSE
    /\ wire = << >>
    /\ outcomes = << >>
    /\ resolverCalls = 0
    /\ fetcherCalls = 0
    /\ lastDelay = 0
    /\ waited = 0
    /\ sleepCancelAt = -1
    /\ sleeps = << >>
    /\ clsErr = FALSE
    /\ clsStatus = 0
    /\ clsOut = "unset"

Return(res) == pc' = "done" /\ result' = res

\* an exhaustion error that reports the attempt count alone
Exhausted_NoCause(le, lr) == Err("exhausted", maxRetries + 1, "none", 0)

\* the error returned when the loop ends without an early return
Exhausted(le, lr) ==
    IF le.set THEN Err("exhausted", maxRetries + 1, le.net, le.status)
    ELSE IF lr # 0 THEN Err("exhausted", maxRetries + 1, "none", lr)
    ELSE Err("exhausted", maxRetries + 1, "none", 0)

\* ------------------------------------------------------- Go: Do
\* a Do that does not look at the context on entry
Do_PreCancelled_Skipped == FALSE

\* req.Context().Err() != nil on entry
Do_PreCancelled == cancelled

\* precondition check and body capture
Do_Start ==
    /\ impl = "go" /\ pc = "start"
    /\ IF Do_PreCancelled
       THEN /\ Return(Failure(Err("cancelled", 0, "none", 0)))
            /\ UNCHANGED <<reqBody, loop>>
       ELSE \E readFails \in (IF reqBody.present THEN BOOLEAN ELSE {FALSE}) :
            /\ reqBody' = IF reqBody.present
                          THEN [reqBody EXCEPT !.pos = Len(reqBody.data)]
                          ELSE reqBody
            /\ IF readFails
               THEN /\ Return(Failure(Err("readbody", 0, "none", 0)))
                    /\ UNCHANGED loop
               ELSE /\ bodyBytes' = IF reqBody.present
                                    THEN [nil |-> FALSE, bytes |-> ReadAll(reqBody)]
                                    ELSE [nil |-> TRUE, bytes |-> << >>]
                    /\ lastErr' = NoLastErr
                    /\ lastResp' = 0
                    /\ attempt' = 0
                    /\ IF 0 <= maxRetries
                       THEN pc' = "prepare" /\ UNCHANGED result
                       ELSE Return(Failure(Exhausted(NoLastErr, 0)))
    /\ UNCHANGED <<bov, stackv, concv, tokv, config, cancelled, netw, authv, sleepv, clsv>>

\* top of a retry iteration: cancellation check, then the interruptible sleep
Do_Backoff ==
    /\ impl = "go" /\ pc = "backoff"
    /\ IF cancelled
       THEN /\ Return(Failure(Err("cancelled", 0, "none", 0)))
            /\ UNCHANGED <<cancelled, sleepv>>
       ELSE \E k \in 0..(JitterGrain - 1) :
            LET delay == ExponentialBackoff(attempt - 1, BaseDelay, k) IN
            /\ lastDelay' = delay
            /\ \/ /\ waited' = delay
                  /\ sleeps' = Append(sleeps, [delay |-> delay, waited |-> delay, cancelAt |-> -1])
                  /\ sleepCancelAt' = -1
                  /\ pc' = "prepare"
                  /\ UNCHANGED <<cancelled, result>>
               \/ \E e \in {0, delay \div 2, delay - 1} :
                  /\ cancelled' = TRUE
                  /\ sleepCancelAt' = e
                  /\ waited' = e
                  /\ sleeps' = Append(sleeps, [delay |-> delay, waited |-> e, cancelAt |-> e])
                  /\ Return(Failure(Err("cancelled", 0, "none", 0)))
    /\ UNCHANGED <<bov, stackv, concv, tokv, config, reqBody, loop, netw, authv, clsv>>

\* a retryReq that keeps the cloned req.Body, which the capture has drained
Do_RetryReqBody_SharedReader(bb) == [present |-> ~bb.nil, data |-> ReadAll(reqBody)]

\* the body of retryReq: a fresh reader over bodyBytes
Do_RetryReqBody(bb) == [present |-> ~bb.nil, data |-> bb.bytes]

\* an injection that sets the resolved header whatever the request carries
Do_InjectAuth_Overwrite(h, authHeader) ==
    IF authHeader # << >> THEN HeaderSet(h, authHeader) ELSE h

\* the Authorization header of retryReq after the injection step
Do_InjectAuth(h, authHeader) ==
    IF HeaderGet(h) = << >> /\ authHeader # << >>
    THEN HeaderSet(h, authHeader)
    ELSE h

\* a Do that drops the resolver's error and sends the request without a header
Do_AuthAborts_Ignored(auth) == FALSE

\* the auth header resolution returned an error: Do returns it
Do_AuthAborts(auth) == auth.err # ""

\* one pass of the loop body from the clone to the network call, for the
\* token outcome tok and a cancellation that fires during the token fetch
Do_PrepareWith(tok, cancelFires) ==
    /\ LET auth == getAuthHeader(authConfig, tok)
            hdr == IF authConfig.set THEN Do_InjectAuth(reqHeader, auth.header) ELSE reqHeader
            nowCancelled == cancelled \/ (authConfig.set /\ auth.fetched /\ cancelFires)
        IN
        /\ resolverCalls' = IF authConfig.set THEN resolverCalls + 1 ELSE resolverCalls
        /\ fetcherCalls' = IF authConfig.set /\ auth.fetched THEN fetcherCalls + 1 ELSE fetcherCalls
        /\ cancelled' = nowCancelled
        /\ authFailed' = (authConfig.set /\ auth.err # "")
        /\ authOut' = IF authConfig.set THEN auth ELSE authOut
        /\ tokOutcome' = IF authConfig.set /\ auth.fetched THEN tok ELSE tokOutcome
        /\ IF authConfig.set /\ Do_AuthAborts(auth)
           THEN /\ Return(Failure(Err("auth", 0, "none", 0)))
                /\ UNCHANGED netw
           ELSE /\ pc' = "await"
                /\ UNCHANGED <<result, outcomes>>
                /\ IF nowCancelled
                   THEN inflight' = FALSE /\ UNCHANGED <<calls, wire>>
                   ELSE /\ inflight' = TRUE
                        /\ calls' = calls + 1
                        /\ wire' = Append(wire, [body |-> Do_RetryReqBody(bodyBytes), auth |-> hdr])
    /\ lastDelay' = 0 /\ waited' = 0 /\ sleepCancelAt' = -1
    /\ UNCHANGED <<sleeps, bov, stackv, concv, tokv, config, reqBody, loop, clsv>>

\* clone the request, resolve and inject the auth header, hand it to client.Do
Do_Prepare ==
    /\ impl = "go" /\ pc = "prepare"
    /\ \E tok \in TokenOutcomes, cancelFires \in BOOLEAN :
          Do_PrepareWith(tok, cancelFires)

\* what one network call can end in
AttemptOutcomes ==
    IF ~inflight THEN { NetOutcome("abort", FALSE) }
    ELSE { StatusOutcome(s) : s \in StatusSet }
         \cup { NetOutcome(n, TRUE) : n \in NetErrors }
         \cup { NetOutcome("abort", TRUE) }

\* a loop that runs one attempt ahead of the outcome it has just received
Do_Continue_Speculative(le, lr) ==
    /\ attempt' = attempt + 2
    /\ lastErr' = le
    /\ lastResp' = lr
    /\ IF attempt + 2 <= maxRetries
       THEN pc' = "backoff" /\ UNCHANGED result
       ELSE Return(Failure(Exhausted(le, lr)))

\* the loop's continue: next attempt, or the exhaustion error
Do_Continue(le, lr) ==
    /\ attempt' = attempt + 1
    /\ lastErr' = le
    /\ lastResp' = lr
    /\ IF attempt + 1 <= maxRetries
       THEN pc' = "backoff" /\ UNCHANGED result
       ELSE Return(Failure(Exhausted(le, lr)))

\* client.Do returns: classify the outcome
Do_Complete ==
    /\ impl = "go" /\ pc = "await"
    /\ \E o \in AttemptOutcomes :
       /\ outcomes' = Append(outcomes, o)
       /\ inflight' = FALSE
       /\ cancelled' = (cancelled \/ o.net = "abort")
       /\ IF o.net # "none"
          THEN IF ~IsRetryableError(TRUE, 0)
               THEN /\ Return(Failure(Err("http", 0, o.net, 0)))
                    /\ lastErr' = NetLastErr(o.net)
                    /\ UNCHANGED <<attempt, lastResp>>
               ELSE Do_Continue(NetLastErr(o.net), lastResp)
          ELSE IF ~IsRetryableError(FALSE, o.status)
               THEN /\ Return(Response(o.status))
                    /\ UNCHANGED <<attempt, lastErr, lastResp>>
               ELSE Do_Continue(StatusLastErr(o.status), o.status)
    /\ UNCHANGED <<bov, stackv, concv, tokv, config, reqBody, bodyBytes, calls, wire, authv, sleepv, clsv>>

\* ------------------------------------------------- TypeScript: fetch
\* abort check and body capture from a clone of the request
fetch_Start ==
    /\ impl = "ts" /\ pc = "start"
    /\ IF cancelled
       THEN /\ Return(Failure(Err("cancelled", 0, "none", 0)))
            /\ UNCHANGED loop
       ELSE \E readFails \in (IF reqBody.present THEN BOOLEAN ELSE {FALSE}) :
            IF readFails
            THEN /\ Return(Failure(Err("readbody", 0, "none", 0)))
                 /\ UNCHANGED loop
            ELSE /\ bodyBytes' = IF reqBody.present
                                 THEN [nil |-> FALSE, bytes |-> ReadAll(reqBody)]
                                 ELSE [nil |-> TRUE, bytes |-> << >>]
                 /\ lastErr' = NoLastErr
                 /\ lastResp' = 0
                 /\ attempt' = 0
                 /\ IF 0 <= maxRetries
                    THEN pc' = "prepare" /\ UNCHANGED result
                    ELSE Return(Failure(Exhausted(NoLastErr, 0)))
    /\ UNCHANGED <<bov, stackv, concv, tokv, config, reqBody, cancelled, netw, authv, sleepv, clsv>>

\* top of a retry iteration: abort check, then a setTimeout that runs to its end
fetch_Backoff ==
    /\ impl = "ts" /\ pc = "backoff"
    /\ IF cancelled
       THEN /\ Return(Failure(Err("cancelled", 0, "none", 0)))
            /\ UNCHANGED <<cancelled, sleepv>>
       ELSE \E k \in 0..(JitterGrain - 1) :
            LET delay == exponentialBackoff(attempt - 1, BaseDelay, k) IN
            /\ lastDelay' = delay
            /\ waited' = delay
            /\ pc' = "prepare"
            /\ UNCHANGED result
            /\ \/ /\ sleepCancelAt' = -1
                  /\ sleeps' = Append(sleeps, [delay |-> delay, waited |-> delay, cancelAt |-> -1])
                  /\ UNCHANGED cancelled
               \/ \E e \in {0, delay \div 2, delay - 1} :
                  /\ cancelled' = TRUE
                  /\ sleepCancelAt' = e
                  /\ sleeps' = Append(sleeps, [delay |-> delay, waited |-> delay, cancelAt |-> e])
    /\ UNCHANGED <<bov, stackv, concv, tokv, config, reqBody, loop, netw, authv, clsv>>

\* the body of retryRequest: bodyBytes, or null
fetch_RetryRequestBody(bb) == [present |-> ~bb.nil, data |-> bb.bytes]

\* the Authorization header of retryRequest after the injection step
fetch_InjectAuth(h, authHeader) ==
    IF authHeader # << >> /\ HeaderGet(h) = << >>
    THEN HeaderSet(h, authHeader)
    ELSE h

\* one pass of the loop body from the clone to the network call, for the
\* token outcome tok and a cancellation that fires during the token fetch
fetch_PrepareWith(tok, cancelFires) ==
    /\ LET auth == RetryHTTPClient_getAuthHeader(authConfig, tok)
            hdr == IF authConfig.set THEN fetch_InjectAuth(reqHeader, auth.header) ELSE reqHeader
            nowCancelled == cancelled \/ (authConfig.set /\ auth.fetched /\ cancelFires)
        IN
        /\ resolverCalls' = IF authConfig.set THEN resolverCalls + 1 ELSE resolverCalls
        /\ fetcherCalls' = IF authConfig.set /\ auth.fetched THEN fetcherCalls + 1 ELSE fetcherCalls
        /\ cancelled' = nowCancelled
        /\ authFailed' = (authConfig.set /\ auth.err # "")
        /\ authOut' = IF authConfig.set THEN auth ELSE authOut
        /\ tokOutcome' = IF authConfig.set /\ auth.fetched THEN tok ELSE tokOutcome
        /\ IF authConfig.set /\ auth.err # ""
           THEN /\ Return(Failure(Err("auth", 0, "none", 0)))
                /\ UNCHANGED netw
           ELSE /\ pc' = "await"
                /\ UNCHANGED <<result, outcomes>>
                /\ IF nowCancelled
                   THEN inflight' = FALSE /\ UNCHANGED <<calls, wire>>
                   ELSE /\ inflight' = TRUE
                        /\ calls' = calls + 1
                        /\ wire' = Append(wire, [body |-> fetch_RetryRequestBody(bodyBytes), auth |-> hdr])
    /\ lastDelay' = 0 /\ waited' = 0 /\ sleepCancelAt' = -1
    /\ UNCHANGED <<sleeps, bov, stackv, concv, tokv, config, reqBody, loop, clsv>>

\* clone the request, resolve and inject the auth header, call fetch
fetch_Prepare ==
    /\ impl = "ts" /\ pc = "prepare"
    /\ \E tok \in TokenOutcomes, cancelFires \in BOOLEAN :
          fetch_PrepareWith(tok, cancelFires)

\* the loop's next iteration, or the exhaustion error
\* a loop that runs one attempt past its budget
fetch_Continue_ExtraAttempt(le, lr) ==
    /\ attempt' = attempt + 1
    /\ lastErr' = le
    /\ lastResp' = lr
    /\ IF attempt + 1 <= maxRetries + 1
       THEN pc' = "backoff" /\ UNCHANGED result
       ELSE Return(Failure(Exhausted(le, lr)))

fetch_Continue(le, lr) ==
    /\ attempt' = attempt + 1
    /\ lastErr' = le
    /\ lastResp' = lr
    /\ IF attempt + 1 <= maxRetries
       THEN pc' = "backoff" /\ UNCHANGED result
       ELSE Return(Failure(Exhausted(le, lr)))

\* fetch settles: classify the response or the rejection
fetch_Complete ==
    /\ impl = "ts" /\ pc = "await"
    /\ \E o \in AttemptOutcomes :
       /\ outcomes' = Append(outcomes, o)
       /\ inflight' = FALSE
       /\ cancelled' = (cancelled \/ o.net = "abort")
       /\ IF o.net = "none"
          THEN IF ~isRetryableError(FALSE, o.status)
               THEN /\ Return(Response(o.status))
                    /\ UNCHANGED <<attempt, lastErr, lastResp>>
               ELSE fetch_Continue(StatusLastErr(o.status), o.status)
          ELSE IF isAbortError(TsError(o.net))
               THEN /\ Return(Failure(Err("abort", 0, o.net, 0)))
                    /\ UNCHANGED <<attempt, lastErr, lastResp>>
               ELSE IF ~isRetryableError(TRUE, 0)
               THEN /\ Return(Failure(Err("http", 0, o.net, 0)))
                    /\ UNCHANGED <<attempt, lastErr, lastResp>>
               ELSE fetch_Continue(NetLastErr(o.net), lastResp)
    /\ UNCHANGED <<bov, stackv, concv, tokv, config, reqBody, bodyBytes, calls, wire, authv, sleepv, clsv>>

Next ==
    \/ Do_Start
    \/ Do_Backoff
    \/ Do_Prepare
    \/ Do_Complete
    \/ fetch_Start
    \/ fetch_Backoff
    \/ fetch_Prepare
    \/ fetch_Complete

Spec == Init /\ [][Next]_vars

\* the send under its scheduling: the calling goroutine / the event loop
\* keeps running the code, every network call returns a response or an
\* error (http.Client Timeout, the timeout signal of the fetch), and every
\* backoff timer fires
Fairness ==
    /\ WF_vars(Do_Start) /\ WF_vars(Do_Backoff)
    /\ WF_vars(Do_Prepare) /\ WF_vars(Do_Complete)
    /\ WF_vars(fetch_Start) /\ WF_vars(fetch_Backoff)
    /\ WF_vars(fetch_Prepare) /\ WF_vars(fetch_Complete)

SpecLive == Init /\ [][Next]_vars /\ Fairness

\* ------------------------------------- one request, both transports
\* The same request, with the same retry count and base delay, is sent by
\* the Go client and then by the TypeScript client, and the TypeScript send
\* meets the outcomes and cancellations that the Go send met, attempt by
\* attempt and sleep by sleep, for as long as the Go send lasted.
InitEquiv ==
    /\ Init
    /\ impl = "go"
    /\ ~authConfig.set
    /\ ~reqHeader.has
    /\ ~reqBody.present

\* for each backoff of the send so far: the signal fired during it
Cancels == [k \in 1..Len(sleeps) |-> sleeps[k].cancelAt >= 0]

\* the outcomes and cancellations of this send are those of the first one
SameInputs ==
    /\ \A i \in 1..Len(outcomes) :
          i <= Len(first.outcomes) => outcomes[i] = first.outcomes[i]
    /\ \A k \in 1..Len(sleeps) :
          k <= Len(first.cancels) => Cancels[k] = first.cancels[k]

\* Do has returned: the request is handed to fetch
Equiv_Switch ==
    /\ impl = "go" /\ pc = "done" /\ ~first.set
    /\ first' = [set |-> TRUE, calls |-> calls, result |-> result,
                 outcomes |-> outcomes, cancels |-> Cancels]
    /\ impl' = "ts"
    /\ cancelled' = startCancelled
    /\ pc' = "start"
    /\ attempt' = 0
    /\ bodyBytes' = [nil |-> TRUE, bytes |-> << >>]
    /\ lastErr' = NoLastErr
    /\ lastResp' = 0
    /\ result' = NoResult
    /\ calls' = 0
    /\ inflight' = FALSE
    /\ wire' = << >>
    /\ outcomes' = << >>
    /\ lastDelay' = 0 /\ waited' = 0 /\ sleepCancelAt' = -1
    /\ sleeps' = << >>
    /\ UNCHANGED <<maxRetries, authConfig, reqHeader, startCancelled, reqBody, authv,
                   clsv, tokv, bov, stackv, concv>>

Equiv_fetch_Backoff == fetch_Backoff /\ SameInputs'
Equiv_fetch_Complete == fetch_Complete /\ SameInputs'

NextEquiv ==
    \/ Do_Start
    \/ Do_Backoff
    \/ Do_Prepare
    \/ Do_Complete
    \/ Equiv_Switch
    \/ fetch_Start
    \/ Equiv_fetch_Backoff
    \/ fetch_Prepare
    \/ Equiv_fetch_Complete

SpecEquiv == InitEquiv /\ [][NextEquiv]_vars

\* --------------------------------------- the classifier on its own inputs
InitClassify ==
    /\ impl \in Impl
    /\ clsErr \in BOOLEAN
    /\ clsStatus \in AllStatuses
    /\ clsOut = "unset"
    /\ maxRetries = 0
    /\ authConfig = NilAuth
    /\ reqHeader = [has |-> FALSE, val |-> << >>]
    /\ reqBody = [present |-> FALSE, data |-> << >>, pos |-> 0]
    /\ cancelled = FALSE
    /\ startCancelled = FALSE
    /\ first = NoFirst
    /\ authFailed = FALSE
    /\ authOut = NoAuthOut
    /\ tokOutcome = NoTokenOutcome
    /\ TokenIdle
    /\ BackoffIdle
    /\ StackIdle
    /\ ConcIdle
    /\ pc = "classify"
    /\ attempt = 0
    /\ bodyBytes = [nil |-> TRUE, bytes |-> << >>]
    /\ lastErr = NoLastErr
    /\ lastResp = 0
    /\ result = NoResult
    /\ calls = 0
    /\ inflight = FALSE
    /\ wire = << >>
    /\ outcomes = << >>
    /\ resolverCalls = 0
    /\ fetcherCalls = 0
    /\ lastDelay = 0
    /\ waited = 0
    /\ sleepCancelAt = -1
    /\ sleeps = << >>

\* Go: IsRetryableError(err, statusCode)
Classify_go ==
    /\ impl = "go" /\ pc = "classify" /\ clsOut = "unset"
    /\ clsOut' = Str(IsRetryableError(clsErr, clsStatus))
    /\ UNCHANGED <<bov, stackv, concv, tokv, config, reqBody, cancelled, pc, loop, result, netw, authv, sleepv, clsErr, clsStatus>>

\* TypeScript: isRetryableError(err, statusCode)
Classify_ts ==
    /\ impl = "ts" /\ pc = "classify" /\ clsOut = "unset"
    /\ clsOut' = Str(isRetryableError(clsErr, clsStatus))
    /\ UNCHANGED <<bov, stackv, concv, tokv, config, reqBody, cancelled, pc, loop, result, netw, authv, sleepv, clsErr, clsStatus>>

NextClassify == Classify_go \/ Classify_ts

SpecClassify == InitClassify /\ [][NextClassify]_vars

\* ------------------------------------------------------ token fetcher
\* what one getToken call returns and leaves in the cache

\* a status check that lets every answer below 500 through to the parser
GetToken_StatusOK_Below500(status) == status < 500

\* resp.StatusCode != http.StatusOK, negated
GetToken_StatusOK(status) == status = 200

\* a fetcher that stores whatever lifetime the endpoint announces
GetToken_ExpiresInValid_Always(expiresIn) == TRUE

\* tokenResponse.ExpiresIn > 0
GetToken_ExpiresInValid(expiresIn) == expiresIn > 0

\* DefaultOAuth2TokenFetcher.GetToken, auth.go: x is what f.client.Do ends in
GetToken(c, clientID, x, t) ==
    LET cachedToken == GetCachedToken(c, clientID, t) IN
    IF cachedToken.hit THEN TokOk(cachedToken.token, 0, c)
    ELSE IF x.err # "none" THEN TokFail("transport", c)
    ELSE IF ~GetToken_StatusOK(x.status) THEN TokStatusFail(x.status, x.body, c)
    ELSE IF ~x.body.json THEN TokFail("parse", c)
    ELSE IF x.body.access_token = << >> THEN TokFail("missing access_token", c)
    ELSE IF GetToken_ExpiresInValid(x.body.expires_in)
    THEN LET stored == SetToken(c, clientID, x.body.access_token, x.body.expires_in * Second, t)
         IN TokOk(x.body.access_token, 1, stored)
    ELSE TokFail("expires_in", c)

\* DefaultOAuth2TokenFetcher.getToken, auth.ts: x is what client.fetch ends in
DefaultOAuth2TokenFetcher_getToken(c, region, clientID, x, t) ==
    LET cachedToken == TokenCache_getToken(c, region, clientID, t) IN
    IF cachedToken.hit THEN TokOk(cachedToken.token, 0, c)
    ELSE IF x.err # "none" THEN TokFail("transport", c)
    ELSE IF x.status # 200 THEN TokStatusFail(x.status, x.body, c)
    ELSE IF ~x.body.json THEN TokFail("parse", c)
    ELSE IF x.body.access_token = << >> THEN TokFail("missing access_token", c)
    ELSE IF x.body.expires_in > 0
    THEN TokOk(x.body.access_token, 1,
               TokenCache_setToken(c, region, clientID, x.body.access_token, x.body.expires_in, t))
    ELSE TokOk(x.body.access_token, 1, c)

\* ------------------------------------- the token cache and the fetcher
\* the transport is idle; the cache is empty at process start
InitToken ==
    /\ impl \in Impl
    /\ pc = "token"
    /\ TokenIdle
    /\ BackoffIdle
    /\ StackIdle
    /\ ConcIdle
    /\ maxRetries = 0
    /\ authConfig = NilAuth
    /\ reqHeader = [has |-> FALSE, val |-> << >>]
    /\ reqBody = [present |-> FALSE, data |-> << >>, pos |-> 0]
    /\ cancelled = FALSE
    /\ startCancelled = FALSE
    /\ first = NoFirst
    /\ authFailed = FALSE
    /\ authOut = NoAuthOut
    /\ tokOutcome = NoTokenOutcome
    /\ attempt = 0
    /\ bodyBytes = [nil |-> TRUE, bytes |-> << >>]
    /\ lastErr = NoLastErr
    /\ lastResp = 0
    /\ result = NoResult
    /\ calls = 0
    /\ inflight = FALSE
    /\ wire = << >>
    /\ outcomes = << >>
    /\ resolverCalls = 0
    /\ fetcherCalls = 0
    /\ lastDelay = 0
    /\ waited = 0
    /\ sleepCancelAt = -1
    /\ sleeps = << >>
    /\ clsErr = FALSE
    /\ clsStatus = 0
    /\ clsOut = "unset"

sendv == <<config, reqBody, cancelled, pc, loop, result, netw, authv, sleepv, clsv,
          bov, stackv, concv>>

Observed(op, region, clientID, r, x) ==
    [op |-> op, region |-> region, clientID |-> clientID, ok |-> r.ok, token |-> r.token,
     cause |-> r.cause, status |-> r.status, errBody |-> r.errBody,
     exchanges |-> r.exchanges, exchange |-> x, at |-> now, before |-> cache]

\* the call got as far as storing the token
StoreCalled(x) ==
    /\ x.err = "none" /\ x.status = 200 /\ x.body.json
    /\ x.body.access_token # << >> /\ x.body.expires_in > 0

Logged(key, token, ttl, region, clientID) ==
    [setLog EXCEPT ![key] = [set |-> TRUE, t0 |-> now, ttl |-> ttl, token |-> token,
                             region |-> region, clientID |-> clientID]]

\* Go: DefaultOAuth2TokenFetcher.GetToken(ctx, authDomain, clientID, clientSecret)
Fetcher_GetToken ==
    /\ impl = "go" /\ pc = "token" /\ steps < MaxSteps
    /\ \E authDomain \in Regions, clientID \in ClientIDs, x \in TokenExchanges \cup {NoExchange} :
       LET r == GetToken(cache, clientID, x, now) IN
       /\ (r.exchanges = 0) = (x = NoExchange)
       /\ cache' = r.cache
       /\ tokLast' = Observed("getToken", authDomain, clientID, r, x)
       /\ setLog' = IF r.exchanges = 1 /\ StoreCalled(x)
                     THEN Logged(cacheKey(clientID), x.body.access_token, x.body.expires_in,
                                 authDomain, clientID)
                     ELSE setLog
    /\ steps' = steps + 1
    /\ UNCHANGED <<sendv, now>>

\* Go: TokenCache.GetCachedToken(clientID)
Cache_GetCachedToken ==
    /\ impl = "go" /\ pc = "token" /\ steps < MaxSteps
    /\ \E clientID \in ClientIDs :
       LET r == GetCachedToken(cache, clientID, now) IN
       tokLast' = Observed("get", "", clientID, IF r.hit THEN TokOk(r.token, 0, cache) ELSE TokMiss(cache), NoExchange)
    /\ steps' = steps + 1
    /\ UNCHANGED <<sendv, now, cache, setLog>>

\* Go: TokenCache.SetToken(clientID, token, expiresIn)
Cache_SetToken ==
    /\ impl = "go" /\ pc = "token" /\ steps < MaxSteps
    /\ \E clientID \in ClientIDs, token \in AccessTokens, ttl \in {e \in ExpiresInSet : e > 0} :
       /\ cache' = SetToken(cache, clientID, token, ttl * Second, now)
       /\ tokLast' = Observed("set", "", clientID, TokOk(token, 0, cache), NoExchange)
       /\ setLog' = Logged(cacheKey(clientID), token, ttl, "", clientID)
    /\ steps' = steps + 1
    /\ UNCHANGED <<sendv, now>>

\* Go: TokenCache.ClearToken(clientID)
Cache_ClearToken ==
    /\ impl = "go" /\ pc = "token" /\ steps < MaxSteps
    /\ \E clientID \in ClientIDs :
       /\ cache' = ClearToken(cache, clientID)
       /\ tokLast' = Observed("clear", "", clientID, TokOk(<< >>, 0, cache), NoExchange)
       /\ setLog' = [setLog EXCEPT ![cacheKey(clientID)] = NoSet]
    /\ steps' = steps + 1
    /\ UNCHANGED <<sendv, now>>

\* TypeScript: DefaultOAuth2TokenFetcher.getToken(signal, region, clientID, clientSecret)
fetcher_getToken ==
    /\ impl = "ts" /\ pc = "token" /\ steps < MaxSteps
    /\ \E region \in Regions, clientID \in ClientIDs, x \in TokenExchanges \cup {NoExchange} :
       LET r == DefaultOAuth2TokenFetcher_getToken(cache, region, clientID, x, now) IN
       /\ (r.exchanges = 0) = (x = NoExchange)
       /\ cache' = r.cache
       /\ tokLast' = Observed("getToken", region, clientID, r, x)
       /\ setLog' = IF r.exchanges = 1 /\ StoreCalled(x)
                     THEN Logged(TokenCache_cacheKey(region, clientID),
                                 x.body.access_token, x.body.expires_in, region, clientID)
                     ELSE setLog
    /\ steps' = steps + 1
    /\ UNCHANGED <<sendv, now>>

\* TypeScript: TokenCache.getToken(region, clientID)
cache_getToken ==
    /\ impl = "ts" /\ pc = "token" /\ steps < MaxSteps
    /\ \E region \in Regions, clientID \in ClientIDs :
       LET r == TokenCache_getToken(cache, region, clientID, now) IN
       tokLast' = Observed("get", region, clientID, IF r.hit THEN TokOk(r.token, 0, cache) ELSE TokMiss(cache), NoExchange)
    /\ steps' = steps + 1
    /\ UNCHANGED <<sendv, now, cache, setLog>>

\* TypeScript: TokenCache.setToken(region, clientID, token, expiresInSeconds)
cache_setToken ==
    /\ impl = "ts" /\ pc = "token" /\ steps < MaxSteps
    /\ \E region \in Regions, clientID \in ClientIDs, token \in AccessTokens,
          ttl \in {e \in ExpiresInSet : e > 0} :
       /\ cache' = TokenCache_setToken(cache, region, clientID, token, ttl, now)
       /\ tokLast' = Observed("set", region, clientID, TokOk(token, 0, cache), NoExchange)
       /\ setLog' = Logged(TokenCache_cacheKey(region, clientID), token, ttl, region, clientID)
    /\ steps' = steps + 1
    /\ UNCHANGED <<sendv, now>>

\* TypeScript: TokenCache.clearToken(region, clientID)
cache_clearToken ==
    /\ impl = "ts" /\ pc = "token" /\ steps < MaxSteps
    /\ \E region \in Regions, clientID \in ClientIDs :
       /\ cache' = TokenCache_clearToken(cache, region, clientID)
       /\ tokLast' = Observed("clear", region, clientID, TokOk(<< >>, 0, cache), NoExchange)
       /\ setLog' = [setLog EXCEPT ![TokenCache_cacheKey(region, clientID)] = NoSet]
    /\ steps' = steps + 1
    /\ UNCHANGED <<sendv, now>>

\* the instants around which a lookup changes its answer
Instants ==
    {now + 1} \cup { cache[k].expiresAt + d : k \in {q \in CacheKeys : cache[q].present},
                                              d \in {-1, 0, 1} }

\* time.Now() / Date.now() moves on between two operations
Tick ==
    /\ pc = "token" /\ steps < MaxSteps
    /\ \E t \in Instants : t > now /\ now' = t
    /\ steps' = steps + 1
    /\ UNCHANGED <<sendv, cache, tokLast, setLog>>

NextToken ==
    \/ Fetcher_GetToken \/ Cache_GetCachedToken \/ Cache_SetToken \/ Cache_ClearToken
    \/ fetcher_getToken \/ cache_getToken \/ cache_setToken \/ cache_clearToken
    \/ Tick

SpecToken == InitToken /\ [][NextToken]_vars

\* ------------------------------------- the resolver on its own inputs
InitResolve ==
    /\ impl \in Impl
    /\ authConfig \in AllAuthConfigs
    /\ pc = "resolve"
    /\ TokenIdle
    /\ BackoffIdle
    /\ StackIdle
    /\ ConcIdle
    /\ maxRetries = 0
    /\ reqHeader = [has |-> FALSE, val |-> << >>]
    /\ reqBody = [present |-> FALSE, data |-> << >>, pos |-> 0]
    /\ cancelled = FALSE
    /\ startCancelled = FALSE
    /\ first = NoFirst
    /\ authFailed = FALSE
    /\ authOut = NoAuthOut
    /\ tokOutcome = NoTokenOutcome
    /\ attempt = 0
    /\ bodyBytes = [nil |-> TRUE, bytes |-> << >>]
    /\ lastErr = NoLastErr
    /\ lastResp = 0
    /\ result = NoResult
    /\ calls = 0
    /\ inflight = FALSE
    /\ wire = << >>
    /\ outcomes = << >>
    /\ resolverCalls = 0
    /\ fetcherCalls = 0
    /\ lastDelay = 0
    /\ waited = 0
    /\ sleepCancelAt = -1
    /\ sleeps = << >>
    /\ clsErr = FALSE
    /\ clsStatus = 0
    /\ clsOut = "unset"

\* one call of the resolver: its result, and whether it called the fetcher
Resolved(auth, tok) ==
    /\ authOut' = auth
    /\ authFailed' = (auth.err # "")
    /\ tokOutcome' = IF auth.fetched THEN tok ELSE tokOutcome
    /\ resolverCalls' = resolverCalls + 1
    /\ fetcherCalls' = IF auth.fetched THEN fetcherCalls + 1 ELSE fetcherCalls
    /\ UNCHANGED <<bov, stackv, concv, tokv, config, reqBody, cancelled, pc, loop, result, netw, sleepv, clsv>>

\* Go: c.getAuthHeader(ctx)
Resolve_go ==
    /\ impl = "go" /\ pc = "resolve" /\ resolverCalls = 0
    /\ \E tok \in TokenOutcomes : Resolved(getAuthHeader(authConfig, tok), tok)

\* TypeScript: this.getAuthHeader(signal)
Resolve_ts ==
    /\ impl = "ts" /\ pc = "resolve" /\ resolverCalls = 0
    /\ \E tok \in TokenOutcomes : Resolved(RetryHTTPClient_getAuthHeader(authConfig, tok), tok)

NextResolve == Resolve_go \/ Resolve_ts

SpecResolve == InitResolve /\ [][NextResolve]_vars

\* ------------------------------- the send with its token request inside
\* the cache identity of the configured credential
TokenIdentity == [region |-> "r1", clientID |-> "c1"]

\* base64 of a string
Base64(str) == <<"base64(">> \o str \o <<")">>

\* req.SetBasicAuth(clientID, clientSecret) / `Basic ${auth}`
BasicAuth(id, secret) == <<"Basic ">> \o Base64(id \o <<":">> \o secret)

\* json.Marshal(payload) / JSON.stringify(payload)
TokenPayload == [present |-> TRUE, data |-> <<123, 125>>, pos |-> 0]

\* a fetcher whose client shares the caller's auth configuration
TokenClient_AuthConfig_Shared(cfg) == cfg

\* the auth configuration of the fetcher's client: none
TokenClient_AuthConfig(cfg) == NilAuth

\* bodies of a 200 answer: long-lived token, short-lived token, not JSON
AuthTokenBodies ==
    { TokenBody(TRUE, TRUE, <<"tokA">>, 301),
      TokenBody(TRUE, TRUE, <<"tokB">>, 1),
      TokenBody(FALSE, FALSE, << >>, 0) }

\* what f.client.Do / client.fetch handed back, as the fetcher reads it
ExchangeOf(res, b) ==
    IF res.kind = "response"
    THEN [err |-> "none", status |-> res.status,
          body |-> IF res.status = 200 THEN b ELSE TokenBody(TRUE, FALSE, << >>, 0)]
    ELSE [err |-> res.err.kind, status |-> 0, body |-> TokenBody(FALSE, FALSE, << >>, 0)]

InitAuth ==
    /\ impl \in Impl
    /\ maxRetries \in 0..MaxTokenRetries
    /\ authConfig \in { c \in AuthConfigs :
                          c.set /\ c.OAuthClientID # << >> /\ c.OAuthClientSecret # << >>
                          /\ c.Region # << >> /\ c.TokenFetcher }
    /\ reqHeader = [has |-> FALSE, val |-> << >>]
    /\ reqBody = [present |-> FALSE, data |-> << >>, pos |-> 0]
    /\ cancelled = FALSE
    /\ startCancelled = cancelled
    /\ first = NoFirst
    /\ authFailed = FALSE
    /\ authOut = NoAuthOut
    /\ tokOutcome = NoTokenOutcome
    /\ TokenIdle
    /\ BackoffIdle
    /\ StackIdle
    /\ ConcIdle
    /\ pc = "start"
    /\ attempt = 0
    /\ bodyBytes = [nil |-> TRUE, bytes |-> << >>]
    /\ lastErr = NoLastErr
    /\ lastResp = 0
    /\ result = NoResult
    /\ calls = 0
    /\ inflight = FALSE
    /\ wire = << >>
    /\ outcomes = << >>
    /\ resolverCalls = 0
    /\ fetcherCalls = 0
    /\ lastDelay = 0
    /\ waited = 0
    /\ sleepCancelAt = -1
    /\ sleeps = << >>
    /\ clsErr = FALSE
    /\ clsStatus = 0
    /\ clsOut = "unset"

\* the caller's send is set aside and the token request starts on the
\* fetcher's client, under the caller's cancellation signal
TokenRequest_Begin(cancelFires) ==
    /\ saved' = [set |-> TRUE, authConfig |-> authConfig, reqHeader |-> reqHeader,
                 reqBody |-> reqBody, loop |-> loop, netw |-> netw, sleepv |-> sleepv,
                 authv |-> authv, cancelled |-> cancelled, cache |-> cache]
    /\ depth' = 2
    /\ authConfig' = TokenClient_AuthConfig(authConfig)
    /\ reqHeader' = HeaderSet(reqHeader,
                              BasicAuth(authConfig.OAuthClientID, authConfig.OAuthClientSecret))
    /\ reqBody' = TokenPayload
    /\ cancelled' = (cancelled \/ cancelFires)
    /\ pc' = "start"
    /\ attempt' = 0
    /\ bodyBytes' = [nil |-> TRUE, bytes |-> << >>]
    /\ lastErr' = NoLastErr
    /\ lastResp' = 0
    /\ result' = NoResult
    /\ calls' = 0
    /\ inflight' = FALSE
    /\ wire' = << >>
    /\ outcomes' = << >>
    /\ lastDelay' = 0 /\ waited' = 0 /\ sleepCancelAt' = -1
    /\ sleeps' = << >>
    /\ UNCHANGED <<impl, maxRetries, startCancelled, first, authv, tokv, tokenSend, bov, concv, clsv>>

\* the token request has ended: the caller's send is taken up again with
\* the fetcher's outcome r
TokenRequest_End(r) ==
    /\ tokenSend' = [set |-> TRUE, calls |-> calls, outcomes |-> outcomes,
                     result |-> result, waited |-> waited, sleepCancelAt |-> sleepCancelAt,
                     cancelledBefore |-> saved.cancelled, cancelledAfter |-> cancelled,
                     cacheBefore |-> saved.cache, apiCallsBefore |-> saved.netw[1]]
    /\ cache' = r.cache
    /\ tokOutcome' = [ok |-> r.ok, token |-> r.token]
    /\ depth' = 1
    /\ saved' = NoFrame
    /\ authConfig' = saved.authConfig
    /\ reqHeader' = saved.reqHeader
    /\ reqBody' = saved.reqBody
    /\ attempt' = saved.loop[1]
    /\ bodyBytes' = saved.loop[2]
    /\ lastErr' = saved.loop[3]
    /\ lastResp' = saved.loop[4]
    /\ calls' = saved.netw[1]
    /\ inflight' = saved.netw[2]
    /\ wire' = saved.netw[3]
    /\ outcomes' = saved.netw[4]
    /\ lastDelay' = saved.sleepv[1]
    /\ waited' = saved.sleepv[2]
    /\ sleepCancelAt' = saved.sleepv[3]
    /\ sleeps' = saved.sleepv[4]
    /\ result' = NoResult
    /\ pc' = "resolved"
    /\ UNCHANGED <<impl, maxRetries, startCancelled, first, cancelled, resolverCalls, fetcherCalls,
                   authFailed, authOut, now, steps, tokLast, setLog, bov, concv, clsv>>

\* getAuthHeader reaches c.authConfig.TokenFetcher.GetToken: a cached token
\* is returned at once, otherwise the token request is built and sent
GetToken_Call ==
    /\ impl = "go" /\ depth = 1 /\ pc = "prepare"
    /\ getAuthHeader(authConfig, NoTokenOutcome).fetched
    /\ LET cachedToken == GetCachedToken(cache, TokenIdentity.clientID, now) IN
       IF cachedToken.hit
       THEN Do_PrepareWith([ok |-> TRUE, token |-> cachedToken.token], FALSE)
       ELSE \E cancelFires \in BOOLEAN : TokenRequest_Begin(cancelFires)

\* f.client.Do(req) has returned: the rest of GetToken
GetToken_Return ==
    /\ impl = "go" /\ depth = 2 /\ pc = "done"
    /\ \E b \in AuthTokenBodies :
          TokenRequest_End(GetToken(cache, TokenIdentity.clientID, ExchangeOf(result, b), now))

\* getAuthHeader returns to Do, which injects the header and sends
Do_Resume ==
    /\ impl = "go" /\ depth = 1 /\ pc = "resolved"
    /\ Do_PrepareWith(tokOutcome, FALSE)

\* the attempt of the token request: its client resolves no auth header
Token_Do_Prepare ==
    /\ depth = 2
    /\ Do_Prepare

\* getAuthHeader reaches tokenFetcher.getToken
getToken_call ==
    /\ impl = "ts" /\ depth = 1 /\ pc = "prepare"
    /\ RetryHTTPClient_getAuthHeader(authConfig, NoTokenOutcome).fetched
    /\ LET cachedToken == TokenCache_getToken(cache, TokenIdentity.region,
                                              TokenIdentity.clientID, now) IN
       IF cachedToken.hit
       THEN fetch_PrepareWith([ok |-> TRUE, token |-> cachedToken.token], FALSE)
       ELSE \E cancelFires \in BOOLEAN : TokenRequest_Begin(cancelFires)

\* this.client.fetch(request) has settled: the rest of getToken
getToken_return ==
    /\ impl = "ts" /\ depth = 2 /\ pc = "done"
    /\ \E b \in AuthTokenBodies :
          TokenRequest_End(DefaultOAuth2TokenFetcher_getToken(
              cache, TokenIdentity.region, TokenIdentity.clientID, ExchangeOf(result, b), now))

\* getAuthHeader returns to fetch, which injects the header and sends
fetch_Resume ==
    /\ impl = "ts" /\ depth = 1 /\ pc = "resolved"
    /\ fetch_PrepareWith(tokOutcome, FALSE)

\* the attempt of the token request: its client resolves no auth header
Token_fetch_Prepare ==
    /\ depth = 2
    /\ fetch_Prepare

NextAuth ==
    \/ Do_Start
    \/ Do_Backoff
    \/ GetToken_Call
    \/ Token_Do_Prepare
    \/ GetToken_Return
    \/ Do_Resume
    \/ Do_Complete
    \/ fetch_Start
    \/ fetch_Backoff
    \/ getToken_call
    \/ Token_fetch_Prepare
    \/ getToken_return
    \/ fetch_Resume
    \/ fetch_Complete

SpecAuth == InitAuth /\ [][NextAuth]_vars

\* --------------------------------- concurrent callers of the token cache
Threads == 1 .. NumThreads

\* the token and lifetime the endpoint issues to caller t: no two alike
ThreadToken(t) == <<"tok">> \o [i \in 1..t |-> "+"]
ThreadExpiresIn(t) == 300 + t

\* an entry left in the cache by an earlier call, expired by now
StaleEntry == Entry(ThreadToken(0), 0)

IdleThread ==
    [pc |-> "idle", op |-> "none", ret |-> << >>, fetched |-> FALSE,
     wrote |-> NoEntry, did |-> {}]

InitConc ==
    /\ impl \in Impl
    /\ threads = [t \in Threads |-> IdleThread]
    /\ rw = [readers |-> {}, writer |-> 0]
    /\ cache \in { EmptyCache,
                   [EmptyCache EXCEPT ![KeyOf(impl, TokenIdentity.region,
                                              TokenIdentity.clientID)] = StaleEntry] }
    /\ now = 0
    /\ steps = 0
    /\ tokLast = NoTokLast
    /\ setLog = EmptySetLog
    /\ authConfig = NilAuth
    /\ pc = "conc"
    /\ BackoffIdle
    /\ StackIdle
    /\ maxRetries = 0
    /\ reqHeader = [has |-> FALSE, val |-> << >>]
    /\ reqBody = [present |-> FALSE, data |-> << >>, pos |-> 0]
    /\ cancelled = FALSE
    /\ startCancelled = FALSE
    /\ first = NoFirst
    /\ authFailed = FALSE
    /\ authOut = NoAuthOut
    /\ tokOutcome = NoTokenOutcome
    /\ attempt = 0
    /\ bodyBytes = [nil |-> TRUE, bytes |-> << >>]
    /\ lastErr = NoLastErr
    /\ lastResp = 0
    /\ result = NoResult
    /\ calls = 0
    /\ inflight = FALSE
    /\ wire = << >>
    /\ outcomes = << >>
    /\ resolverCalls = 0
    /\ fetcherCalls = 0
    /\ lastDelay = 0
    /\ waited = 0
    /\ sleepCancelAt = -1
    /\ sleeps = << >>
    /\ clsErr = FALSE
    /\ clsStatus = 0
    /\ clsOut = "unset"

\* the key all callers use
ConcKey == KeyOf(impl, TokenIdentity.region, TokenIdentity.clientID)

\* a call begins: thread t is idle and the run has calls left
Begins(t) == threads[t].pc = "idle" /\ steps < MaxSteps

Finish(t, op, ret, fetched, wrote) ==
    [pc |-> "idle", op |-> "none", ret |-> ret, fetched |-> fetched,
     wrote |-> wrote, did |-> threads[t].did \cup {op}]

\* tc.mu.RLock(): granted while no writer holds the lock
CanRLock == rw.writer = 0

\* a mutex that grants the write lock whoever holds it
CanLock_Always == TRUE

\* tc.mu.Lock(): granted while nobody holds the lock
CanLock == rw.writer = 0 /\ rw.readers = {}

AcquireShared(t) == CanRLock /\ rw' = [rw EXCEPT !.readers = @ \cup {t}]
AcquireExclusive(t) == CanLock /\ rw' = [rw EXCEPT !.writer = t]
Release(t) ==
    rw' = [readers |-> rw.readers \ {t},
           writer |-> IF rw.writer = t THEN 0 ELSE rw.writer]

\* a SetToken that takes the read lock
SetToken_Acquire_Shared(t) == AcquireShared(t)

\* SetToken: tc.mu.Lock()
SetToken_Acquire(t) == AcquireExclusive(t)

\* what the cache callers leave alone
ConcFrame == <<config, reqBody, cancelled, pc, loop, result, netw, authv, sleepv, clsv,
              bov, stackv, now, tokLast, setLog>>

\* GetCachedToken, called directly or first thing in GetToken: tc.mu.RLock()
Thread_RLock(t) ==
    /\ impl = "go" /\ pc = "conc"
    /\ Begins(t)
    /\ \E op \in {"get", "getToken"} :
          threads' = [threads EXCEPT ![t].pc = "rlocked", ![t].op = op,
                                     ![t].ret = << >>, ![t].fetched = FALSE]
    /\ AcquireShared(t)
    /\ steps' = steps + 1
    /\ UNCHANGED <<ConcFrame, cache>>

\* the lookup under the read lock, then the deferred tc.mu.RUnlock()
Thread_Read(t) ==
    /\ impl = "go" /\ pc = "conc"
    /\ threads[t].pc = "rlocked"
    /\ LET r == GetCachedToken(cache, TokenIdentity.clientID, now) IN
       threads' = [threads EXCEPT ![t] =
           IF threads[t].op = "getToken" /\ ~r.hit
           THEN [@ EXCEPT !.pc = "exchange"]
           ELSE Finish(t, threads[t].op, r.token, FALSE, threads[t].wrote)]
    /\ Release(t)
    /\ UNCHANGED <<ConcFrame, cache, steps>>

\* f.client.Do(req) and the checks that follow: an error, or the token
Thread_Exchange(t) ==
    /\ impl = "go" /\ pc = "conc"
    /\ threads[t].pc = "exchange"
    /\ \E ok \in BOOLEAN :
          threads' = [threads EXCEPT ![t] =
              IF ok THEN [@ EXCEPT !.pc = "store", !.fetched = TRUE]
              ELSE Finish(t, "getToken", << >>, FALSE, threads[t].wrote)]
    /\ UNCHANGED <<ConcFrame, cache, steps, rw>>

\* SetToken, called directly or by GetToken: tc.mu.Lock()
Thread_Lock(t) ==
    /\ impl = "go" /\ pc = "conc"
    /\ \/ /\ Begins(t)
          /\ steps' = steps + 1
          /\ threads' = [threads EXCEPT ![t].pc = "locked", ![t].op = "set",
                                        ![t].ret = << >>, ![t].fetched = FALSE]
       \/ /\ threads[t].pc = "store"
          /\ threads' = [threads EXCEPT ![t].pc = "locked"]
          /\ UNCHANGED steps
    /\ SetToken_Acquire(t)
    /\ UNCHANGED <<ConcFrame, cache>>

\* the entry SetToken builds for caller t
Thread_Entry(t) ==
    SetToken(cache, TokenIdentity.clientID, ThreadToken(t),
             ThreadExpiresIn(t) * Second, now)[ConcKey]

\* tc.cache[key] = cacheEntry{...}: the token field of the entry
Thread_WriteToken(t) ==
    /\ impl = "go" /\ pc = "conc"
    /\ threads[t].pc = "locked"
    /\ cache' = [cache EXCEPT ![ConcKey] =
                    [present |-> TRUE, token |-> Thread_Entry(t).token,
                     expiresAt |-> cache[ConcKey].expiresAt]]
    /\ threads' = [threads EXCEPT ![t].pc = "locked2"]
    /\ UNCHANGED <<ConcFrame, steps, rw>>

\* the expiresAt field of the entry, then the deferred tc.mu.Unlock()
Thread_WriteExpiry(t) ==
    /\ impl = "go" /\ pc = "conc"
    /\ threads[t].pc = "locked2"
    /\ cache' = [cache EXCEPT ![ConcKey].expiresAt = Thread_Entry(t).expiresAt]
    /\ threads' = [threads EXCEPT ![t] =
           Finish(t, threads[t].op,
                  IF threads[t].op = "getToken" THEN ThreadToken(t) ELSE << >>,
                  threads[t].fetched, Thread_Entry(t))]
    /\ Release(t)
    /\ UNCHANGED <<ConcFrame, steps>>

\* ClearToken: tc.mu.Lock()
Thread_ClearLock(t) ==
    /\ impl = "go" /\ pc = "conc"
    /\ Begins(t)
    /\ steps' = steps + 1
    /\ threads' = [threads EXCEPT ![t].pc = "clearing", ![t].op = "clear",
                                  ![t].ret = << >>, ![t].fetched = FALSE]
    /\ AcquireExclusive(t)
    /\ UNCHANGED <<ConcFrame, cache>>

\* delete(tc.cache, key), then the deferred tc.mu.Unlock()
Thread_Delete(t) ==
    /\ impl = "go" /\ pc = "conc"
    /\ threads[t].pc = "clearing"
    /\ cache' = ClearToken(cache, TokenIdentity.clientID)
    /\ threads' = [threads EXCEPT ![t] = Finish(t, "clear", << >>, FALSE, threads[t].wrote)]
    /\ Release(t)
    /\ UNCHANGED <<ConcFrame, steps>>

\* tokenCache.getToken, called directly or first thing in getToken: one
\* synchronous call; getToken then awaits this.client.fetch on a miss
task_getToken(t) ==
    /\ impl = "ts" /\ pc = "conc"
    /\ Begins(t)
    /\ steps' = steps + 1
    /\ \E op \in {"get", "getToken"} :
       LET r == TokenCache_getToken(cache, TokenIdentity.region, TokenIdentity.clientID, now) IN
       threads' = [threads EXCEPT ![t] =
           IF op = "getToken" /\ ~r.hit
           THEN [@ EXCEPT !.pc = "exchange", !.op = op, !.ret = << >>, !.fetched = FALSE]
           ELSE Finish(t, op, r.token, FALSE, threads[t].wrote)]
    /\ UNCHANGED <<ConcFrame, cache, rw>>

\* the awaited fetch settles: an error, or setToken and the token, in one
\* synchronous stretch
task_settle(t) ==
    /\ impl = "ts" /\ pc = "conc"
    /\ threads[t].pc = "exchange"
    /\ \E ok \in BOOLEAN :
       LET stored == TokenCache_setToken(cache, TokenIdentity.region, TokenIdentity.clientID,
                                         ThreadToken(t), ThreadExpiresIn(t), now) IN
       IF ok
       THEN /\ cache' = stored
            /\ threads' = [threads EXCEPT ![t] =
                   Finish(t, "getToken", ThreadToken(t), TRUE, stored[ConcKey])]
       ELSE /\ UNCHANGED cache
            /\ threads' = [threads EXCEPT ![t] =
                   Finish(t, "getToken", << >>, FALSE, threads[t].wrote)]
    /\ UNCHANGED <<ConcFrame, steps, rw>>

\* tokenCache.setToken, called directly: one synchronous call
task_setToken(t) ==
    /\ impl = "ts" /\ pc = "conc"
    /\ Begins(t)
    /\ steps' = steps + 1
    /\ LET stored == TokenCache_setToken(cache, TokenIdentity.region, TokenIdentity.clientID,
                                         ThreadToken(t), ThreadExpiresIn(t), now) IN
       /\ cache' = stored
       /\ threads' = [threads EXCEPT ![t] = Finish(t, "set", << >>, FALSE, stored[ConcKey])]
    /\ UNCHANGED <<ConcFrame, rw>>

\* tokenCache.clearToken: one synchronous call
task_clearToken(t) ==
    /\ impl = "ts" /\ pc = "conc"
    /\ Begins(t)
    /\ steps' = steps + 1
    /\ cache' = TokenCache_clearToken(cache, TokenIdentity.region, TokenIdentity.clientID)
    /\ threads' = [threads EXCEPT ![t] = Finish(t, "clear", << >>, FALSE, threads[t].wrote)]
    /\ UNCHANGED <<ConcFrame, rw>>

NextConc ==
    \/ \E t \in Threads : Thread_RLock(t)
    \/ \E t \in Threads : Thread_Read(t)
    \/ \E t \in Threads : Thread_Exchange(t)
    \/ \E t \in Threads : Thread_Lock(t)
    \/ \E t \in Threads : Thread_WriteToken(t)
    \/ \E t \in Threads : Thread_WriteExpiry(t)
    \/ \E t \in Threads : Thread_ClearLock(t)
    \/ \E t \in Threads : Thread_Delete(t)
    \/ \E t \in Threads : task_getToken(t)
    \/ \E t \in Threads : task_settle(t)
    \/ \E t \in Threads : task_setToken(t)
    \/ \E t \in Threads : task_clearToken(t)

SpecConc == InitConc /\ [][NextConc]_vars

\* ------------------------------------- the backoff function on its own inputs
\* A duration is written m * 2^e: the mantissa m and the exponent e.
Num(m, e) == [set |-> TRUE, m |-> m, e |-> e]

\* base delays, in the unit of the duration type
BackoffBases == {1, 3, 5}

\* the draws of rand.Float64() / Math.random(), in units of 2^-JitterBits
RandDraws == 0 .. (Pow2(JitterBits) - 1)

\* int64 arithmetic: the value modulo 2^64, read as a signed number
Wrap64(x) ==
    IF x.e >= 64 THEN Num(0, 0)
    ELSE LET w == 64 - x.e
         IN  IF w > 30 THEN x
             ELSE LET M == Pow2(w)
                      r == x.m % M
                  IN  Num(IF r >= M \div 2 THEN r - M ELSE r, x.e)

\* conversion of a float to an integer: the value x / 2^s, truncated toward zero
Truncate(x, s) ==
    IF x.e >= s THEN Num(x.m, x.e - s)
    ELSE LET v == x.m * Pow2(x.e)
             q == IF v >= 0 THEN v \div Pow2(s) ELSE -((-v) \div Pow2(s))
         IN  Num(q, 0)

\* x + y, exact
Sum(x, y) ==
    LET e == IF x.e <= y.e THEN x.e ELSE y.e
    IN  Num(x.m * Pow2(x.e - e) + y.m * Pow2(y.e - e), e)

\* x <= y and x < y
Leq(x, y) ==
    LET e == IF x.e <= y.e THEN x.e ELSE y.e
    IN  x.m * Pow2(x.e - e) <= y.m * Pow2(y.e - e)

Less(x, y) ==
    LET e == IF x.e <= y.e THEN x.e ELSE y.e
    IN  x.m * Pow2(x.e - e) < y.m * Pow2(y.e - e)

\* ExponentialBackoff over time.Duration (int64 nanoseconds)
ExponentialBackoff_Duration(att, baseDelay, k) ==
    LET delay  == Wrap64(Num(baseDelay, att))
        jitter == Truncate(Num(k * delay.m, delay.e), JitterBits + 2)
    IN  Wrap64(Sum(delay, jitter))

\* exponentialBackoff over number (float64 milliseconds)
exponentialBackoff_number(att, baseDelayMs, k) ==
    LET delay  == Num(baseDelayMs, att)
        jitter == Num(k * delay.m, delay.e - (JitterBits + 2))
    IN  Sum(delay, jitter)

InitBackoff ==
    /\ impl \in Impl
    /\ authConfig = NilAuth
    /\ pc = "backoff_fn"
    /\ TokenIdle
    /\ boAttempt \in 0 .. MaxAttemptArg
    /\ boBase \in BackoffBases
    /\ boRand = 0
    /\ boOut = NoNum
    /\ StackIdle
    /\ ConcIdle
    /\ maxRetries = 0
    /\ reqHeader = [has |-> FALSE, val |-> << >>]
    /\ reqBody = [present |-> FALSE, data |-> << >>, pos |-> 0]
    /\ cancelled = FALSE
    /\ startCancelled = FALSE
    /\ first = NoFirst
    /\ authFailed = FALSE
    /\ authOut = NoAuthOut
    /\ tokOutcome = NoTokenOutcome
    /\ attempt = 0
    /\ bodyBytes = [nil |-> TRUE, bytes |-> << >>]
    /\ lastErr = NoLastErr
    /\ lastResp = 0
    /\ result = NoResult
    /\ calls = 0
    /\ inflight = FALSE
    /\ wire = << >>
    /\ outcomes = << >>
    /\ resolverCalls = 0
    /\ fetcherCalls = 0
    /\ lastDelay = 0
    /\ waited = 0
    /\ sleepCancelAt = -1
    /\ sleeps = << >>
    /\ clsErr = FALSE
    /\ clsStatus = 0
    /\ clsOut = "unset"

Backoff_go ==
    /\ impl = "go"
    /\ pc = "backoff_fn"
    /\ ~boOut.set
    /\ \E k \in RandDraws :
          /\ boRand' = k
          /\ boOut' = ExponentialBackoff_Duration(boAttempt, boBase, k)
    /\ UNCHANGED <<boAttempt, boBase, stackv, concv, tokv, config, reqBody, cancelled,
                   pc, loop, result, netw, authv, sleepv, clsv>>

Backoff_ts ==
    /\ impl = "ts"
    /\ pc = "backoff_fn"
    /\ ~boOut.set
    /\ \E k \in RandDraws :
          /\ boRand' = k
          /\ boOut' = exponentialBackoff_number(boAttempt, boBase, k)
    /\ UNCHANGED <<boAttempt, boBase, stackv, concv, tokv, config, reqBody, cancelled,
                   pc, loop, result, netw, authv, sleepv, clsv>>

NextBackoff ==
    \/ Backoff_go
    \/ Backoff_ts

SpecBackoff == InitBackoff /\ [][NextBackoff]_vars

\* ------------------------------------------------------------ claim helpers
\* the statuses the retry policy names as retryable
PolicyRetryableStatus(s) == s = 429 \/ s = 408 \/ (s >= 500 /\ s <= 599)
RetryableStatusOutcome(o) == o.net = "none" /\ PolicyRetryableStatus(o.status)
RetryableOutcome(o) == o.net \in NetErrors \/ RetryableStatusOutcome(o)
\* the send was neither cancelled nor stopped by a body or auth failure
CleanRun == ~cancelled /\ ~authFailed /\ result.err.kind # "readbody"
IsCancellationError(e) == e.kind \in {"cancelled", "abort"}

\* C1: with no transport error, the classifier answers retryable exactly
\* for 429, 408 and 500..599
C1_RetryableStatuses ==
    (clsOut # "unset" /\ ~clsErr) =>
        ((clsOut = "true") <=> PolicyRetryableStatus(clsStatus))

\* C2: a send makes at most maxRetries+1 network calls; when every attempt
\* ends in a retryable outcome it makes exactly maxRetries+1 calls, returns
\* no response and fails with an error reporting maxRetries+1 attempts
C2_AttemptBudget ==
    /\ calls <= maxRetries + 1
    /\ (pc = "done" /\ CleanRun /\ maxRetries >= 0
            /\ \A i \in 1..Len(outcomes) : RetryableOutcome(outcomes[i]))
        => /\ calls = maxRetries + 1
           /\ result.kind = "error"
           /\ result.err.kind = "exhausted"
           /\ result.err.attempts = maxRetries + 1

\* C3: a response with a non-retryable status ends the send: it is the
\* result, no error is raised, and no further network call is made
C3_NonRetryableReturned ==
    \A i \in 1..Len(outcomes) :
        (outcomes[i].net = "none" /\ ~PolicyRetryableStatus(outcomes[i].status))
        => /\ i = Len(outcomes)
           /\ pc = "done"
           /\ result = Response(outcomes[i].status)
           /\ calls = i

C3_Witness ==
    /\ pc = "done" /\ Len(outcomes) = 1 /\ calls = 1
    /\ outcomes[1] = StatusOutcome(400)
    /\ result = Response(400)

\* C4: k retryable statuses (500, 429 or 408) followed by a 200, with
\* k <= maxRetries, give exactly k+1 network calls and the 200 response
C4_RetryThenSuccess ==
    (pc = "done" /\ CleanRun /\ Len(outcomes) >= 1) =>
        LET n == Len(outcomes) IN
        /\ (n <= maxRetries => ~RetryableStatusOutcome(outcomes[n]))
        /\ ((n >= 2 /\ outcomes[n] = StatusOutcome(200)
               /\ \A i \in 1..(n - 1) : RetryableStatusOutcome(outcomes[i]))
            => (calls = n /\ result = Response(200)))

\* C5: a send invoked with the cancellation signal already triggered fails
\* with a cancellation error, makes no network call and never invokes the
\* auth resolver or the token fetcher
C5_CancelledBeforeStart ==
    startCancelled =>
        /\ pc \in {"start", "done"}
        /\ calls = 0 /\ wire = << >>
        /\ resolverCalls = 0 /\ fetcherCalls = 0
        /\ (pc = "done" => result = Failure(Err("cancelled", 0, "none", 0)))

C5_Witness ==
    /\ startCancelled /\ pc = "done" /\ authConfig.set
    /\ result.err.kind = "cancelled"

\* C6: an attempt whose in-flight network call fails with a cancellation
\* error is the last one, on any attempt index, and the send fails with a
\* cancellation error, not with the exhausted-retries error
C6_AbortInFlight ==
    \A i \in 1..Len(outcomes) :
        (outcomes[i].net = "abort" /\ outcomes[i].sent)
        => /\ i = Len(outcomes)
           /\ pc \in {"backoff", "done"}
           /\ calls = i
           /\ (pc = "done" =>
                 (result.kind = "error" /\ IsCancellationError(result.err)))

\* C7: a cancellation that fires during the backoff sleep ends the send at
\* once with a cancellation error: the sleep stops at the instant of the
\* cancellation and no further network call is issued
C7_CancelDuringSleep ==
    sleepCancelAt >= 0 =>
        /\ pc = "done"
        /\ result = Failure(Err("cancelled", 0, "none", 0))
        /\ waited = sleepCancelAt
        /\ waited < lastDelay
        /\ calls = Len(outcomes)

\* C8: the body is captured once before the first attempt and every request
\* on the wire carries exactly the bytes the caller supplied
C8_BodyReplay ==
    /\ pc \in {"backoff", "prepare", "await"} =>
          (bodyBytes.nil = ~reqBody.present /\ bodyBytes.bytes = reqBody.data)
    /\ \A i \in 1..Len(wire) :
          /\ wire[i].body.present = reqBody.present
          /\ wire[i].body.data = reqBody.data

C8_Witness ==
    /\ Len(wire) >= 2
    /\ reqBody.data = <<7, 9>>
    /\ wire[2].body.data = <<7, 9>>

\* C9 as stated: whenever the caller's request carries an Authorization
\* header, every request on the wire carries that header unchanged, and a
\* resolved header is injected only when the request has none
C9_Original ==
    \A i \in 1..Len(wire) :
        /\ reqHeader.has => wire[i].auth = reqHeader
        /\ ~authConfig.set => wire[i].auth = reqHeader

\* C9 amended: whenever the caller's request carries a non-empty
\* Authorization header value, every request on the wire carries it
\* unchanged; a resolved header is injected only when the request's
\* Authorization value is absent or empty
C9_CallerHeaderKept ==
    \A i \in 1..Len(wire) :
        /\ HeaderGet(reqHeader) # << >> => wire[i].auth = reqHeader
        /\ ~authConfig.set => wire[i].auth = reqHeader
        /\ (HeaderGet(reqHeader) = << >> /\ authConfig.set) =>
              /\ wire[i].auth.has
              /\ wire[i].auth.val \in {<<"Bearer ", "tok">>, <<"ApiKey ", "key">>}

C9_Witness ==
    /\ Len(wire) >= 2
    /\ HeaderGet(reqHeader) # << >>
    /\ authConfig.set /\ resolverCalls >= 2 /\ ~authFailed
    /\ wire[2].auth = reqHeader

\* C10: a failed auth header resolution ends the send immediately with that
\* error: the attempt issues no network call, nothing is retried or slept,
\* and the attempt counter is not advanced
C10_AuthFailureAborts ==
    authFailed =>
        /\ pc = "done"
        /\ result = Failure(Err("auth", 0, "none", 0))
        /\ ~inflight
        /\ calls = attempt /\ Len(outcomes) = attempt /\ Len(wire) = attempt
        /\ attempt <= maxRetries
        /\ sleepCancelAt = -1 /\ waited = 0

C10_Witness ==
    /\ authFailed /\ pc = "done" /\ attempt >= 1
    /\ fetcherCalls >= 2
    /\ result.err.kind = "auth"

\* C37: when the caller's request already carries an Authorization header,
\* the transport resolves no auth header for it: the resolver is not run and
\* the token fetcher is not called on any attempt, and no failure of the
\* resolver ends the send
C37_CallerHeaderSkipsResolver ==
    HeaderGet(reqHeader) # << >> =>
        /\ resolverCalls = 0
        /\ fetcherCalls = 0
        /\ ~authFailed

\* C39: for every accepted retry count, zero and negative ones included, a
\* send that is not cancelled, whose body is read and whose auth header
\* resolves issues at least one network call before it reports a failure
C39_OneCallBeforeFailure ==
    (pc = "done" /\ result.kind = "error" /\ CleanRun) => calls >= 1

\* the backoffs that ran their whole delay, and the undithered delay of the
\* k-th backoff of a send
FullSleeps == { i \in 1..Len(sleeps) : sleeps[i].waited = sleeps[i].delay }
Undithered(k) == Pow2(k - 1) * BaseDelay

\* C32: no delay precedes the first attempt, and exactly one backoff lies
\* between one network call and the next; the k-th backoff of a send is
\* exponentialBackoff(k-1, baseDelay), whose undithered part is baseDelay,
\* 2*baseDelay, 4*baseDelay, ... with less than a quarter of it added; a
\* finished send that issued r retries slept exactly r whole delays, and one
\* more backoff was begun only where cancellation or an auth failure kept
\* the next retry off the network
C32_OneSleepPerRetry ==
    /\ Len(sleeps) <= calls
    /\ calls <= Len(sleeps) + 1
    /\ \A k \in 1..Len(sleeps) :
          /\ Undithered(k) <= sleeps[k].delay
          /\ 4 * sleeps[k].delay < 5 * Undithered(k)
          /\ sleeps[k].waited <= sleeps[k].delay
          /\ k < Len(sleeps) => k \in FullSleeps
    /\ pc = "await" => (Len(sleeps) = attempt /\ FullSleeps = 1..attempt)
    /\ (pc = "done" /\ calls >= 1 /\ ~cancelled /\ ~authFailed) =>
          (Len(sleeps) = calls - 1 /\ FullSleeps = 1..(calls - 1))

\* a send of three attempts that slept twice: the base delay, then a
\* dithered delay above twice the base delay
C32_Witness ==
    /\ pc = "done" /\ calls = 3 /\ ~cancelled /\ ~authFailed
    /\ Len(sleeps) = 2
    /\ sleeps[1].delay = BaseDelay
    /\ sleeps[2].delay > 2 * BaseDelay

\* C38: every send terminates, given that every network call returns and
\* every backoff timer fires: it ends, for good, with a response or an error,
\* having issued at most maxRetries+1 network calls and slept at most
\* maxRetries times (not at all when the retry count is zero or negative),
\* whatever outcomes the attempts have
C38_SendTerminates ==
    /\ <>[](pc = "done" /\ result.kind \in {"response", "error"})
    /\ [](/\ calls <= maxRetries + 1
          /\ Len(outcomes) <= maxRetries + 1
          /\ (Len(sleeps) <= maxRetries \/ sleeps = << >>))

\* a TypeScript send that used its whole budget: every attempt failed, and
\* it ended after maxRetries+1 calls and maxRetries sleeps
C38_Witness ==
    /\ impl = "ts" /\ pc = "done" /\ maxRetries >= 2
    /\ result.kind = "error" /\ result.err.kind = "exhausted"
    /\ calls = maxRetries + 1
    /\ Len(sleeps) = maxRetries

\* cancellation is reported by Go as the context's error and by TypeScript
\* as the abort error of fetch
ErrClass(e) == IF e.kind \in {"cancelled", "abort"} THEN "cancellation" ELSE e.kind
SameOutcome(a, b) ==
    /\ a.kind = b.kind
    /\ a.status = b.status
    /\ ErrClass(a.err) = ErrClass(b.err)

\* C31: Go Do and TypeScript fetch are functionally equivalent: with the
\* same retry count and base delay and the same per-attempt outcomes and
\* cancellations, they issue the same number of network calls and end in
\* the same outcome, the same returned status or an error of the same kind
C31_GoAndTsEquivalent ==
    (first.set /\ pc = "done") =>
        /\ calls = first.calls
        /\ SameOutcome(result, first.result)

\* -------------------------------------------------- token cache claims
\* the cache key of the latest operation, and the entry it found there
LastKey == KeyOf(impl, tokLast.region, tokLast.clientID)
LastEntry == tokLast.before[LastKey]
EntryLive(e, t) == e.present /\ e.token # << >> /\ t < e.expiresAt

\* C11: a getToken for an identity that has no cache entry performs exactly
\* one token-endpoint exchange, whatever other identities have cached; a
\* getToken made before the expiry of the identity's cached entry performs no
\* exchange and returns the cached token.
C11_ExchangeOncePerIdentity ==
    tokLast.op = "getToken" =>
        /\ ~LastEntry.present => tokLast.exchanges = 1
        /\ EntryLive(LastEntry, tokLast.at) =>
               /\ tokLast.exchanges = 0
               /\ tokLast.ok
               /\ tokLast.token = LastEntry.token
        /\ tokLast.exchanges \in {0, 1}

\* the third call of a run: a second identity is fetched over the network
\* while the first identity's token is still cached
C11_Witness ==
    /\ tokLast.op = "getToken" /\ tokLast.exchanges = 1 /\ tokLast.ok
    /\ ~LastEntry.present
    /\ \E k \in CacheKeys : k # LastKey /\ EntryLive(tokLast.before[k], tokLast.at)
    /\ steps = 3

\* C12: get returns a token only if an entry exists for the identity and the
\* time is strictly before its expiry; a missing entry and an expired entry
\* (now = expiry included) are misses; get leaves the cache as it was.
C12_GetStrictlyBeforeExpiry ==
    tokLast.op = "get" =>
        /\ tokLast.ok => /\ LastEntry.present
                         /\ tokLast.at < LastEntry.expiresAt
                         /\ tokLast.token = LastEntry.token
        /\ ~LastEntry.present => ~tokLast.ok
        /\ (LastEntry.present /\ tokLast.at >= LastEntry.expiresAt) => ~tokLast.ok
        /\ cache = tokLast.before

\* a get at the very instant of the entry's expiry
C12_Witness ==
    /\ tokLast.op = "get" /\ ~tokLast.ok
    /\ LastEntry.present /\ LastEntry.token # << >>
    /\ tokLast.at = LastEntry.expiresAt

\* C13: after a set at t0 with ttl above the 5-minute safety buffer, and until
\* the next set or clear of that identity, the stored expiry is
\* t0 + ttl - 5 minutes, and get returns the token before it and misses from
\* it on.
C13_SafetyBufferExpiry ==
    \A k \in CacheKeys :
        (setLog[k].set /\ setLog[k].ttl * Second > SafetyBuffer) =>
            LET expiry == setLog[k].t0 + setLog[k].ttl * Second - SafetyBuffer IN
            /\ cache[k] = Entry(setLog[k].token, expiry)
            /\ (tokLast.op = "get" /\ LastKey = k) =>
                   IF tokLast.at < expiry
                   THEN tokLast.ok /\ tokLast.token = setLog[k].token
                   ELSE ~tokLast.ok

\* a get one tick before the buffered expiry of a 301-second token
C13_Witness ==
    /\ tokLast.op = "get" /\ tokLast.ok
    /\ setLog[LastKey].set /\ setLog[LastKey].ttl = 301
    /\ tokLast.at = setLog[LastKey].t0 + 1

\* the token endpoint answered 200 with a JSON body carrying a token
AnsweredToken(x) ==
    x.err = "none" /\ x.status = 200 /\ x.body.json /\ x.body.access_token # << >>

\* C14: getToken changes the cache only on a fully successful exchange (200,
\* parsable body, non-empty access_token, expires_in > 0); a getToken that
\* fails leaves the cache exactly as it was before the call.
C14_CacheMutatedOnlyOnSuccess ==
    tokLast.op = "getToken" =>
        /\ ~tokLast.ok => cache = tokLast.before
        /\ cache # tokLast.before =>
               /\ tokLast.ok /\ tokLast.exchanges = 1
               /\ AnsweredToken(tokLast.exchange)
               /\ tokLast.exchange.body.expires_in > 0

\* a failed exchange after which another identity's entry is still in place
C14_Witness ==
    /\ tokLast.op = "getToken" /\ ~tokLast.ok /\ tokLast.exchanges = 1
    /\ tokLast.cause \in {"transport", "status", "parse", "missing access_token", "expires_in"}
    /\ cache = tokLast.before
    /\ \E k \in CacheKeys : cache[k].present

\* C15: a 200 answer with a non-empty access_token and expires_in <= 0 makes
\* getToken fail, without returning the token and without caching it.
C15_ExpiresInRejected ==
    ( /\ tokLast.op = "getToken" /\ tokLast.exchanges = 1
      /\ AnsweredToken(tokLast.exchange)
      /\ tokLast.exchange.body.expires_in <= 0 ) =>
        /\ ~tokLast.ok
        /\ tokLast.token = << >>
        /\ cache = tokLast.before

\* C16: an exchange returns a token only on a 200 answer with a non-empty
\* access_token, and then that token; a non-200 answer fails with an error
\* carrying the status code and the body; a 200 answer whose access_token is
\* missing or empty fails with the missing-access_token error.
C16_TokenOnlyFrom200 ==
    (tokLast.op = "getToken" /\ tokLast.exchanges = 1) =>
        LET x == tokLast.exchange IN
        /\ tokLast.ok => /\ AnsweredToken(x)
                         /\ tokLast.token = x.body.access_token
        /\ (x.err = "none" /\ x.status # 200) =>
               /\ ~tokLast.ok /\ tokLast.cause = "status"
               /\ tokLast.status = x.status /\ tokLast.errBody = x.body
        /\ (x.err = "none" /\ x.status = 200 /\ x.body.json /\ x.body.access_token = << >>) =>
               ~tokLast.ok /\ tokLast.cause = "missing access_token"

\* a 200 answer whose JSON body has no access_token
C16_Witness ==
    /\ tokLast.op = "getToken" /\ tokLast.exchanges = 1
    /\ tokLast.exchange.status = 200 /\ tokLast.exchange.body.json
    /\ ~tokLast.exchange.body.hasToken
    /\ ~tokLast.ok /\ tokLast.cause = "missing access_token"

\* ------------------------------------------------------ resolver claims
OAuthPair(cfg) == cfg.OAuthClientID # << >> /\ cfg.OAuthClientSecret # << >>
OAuthComplete(cfg) ==
    cfg.set /\ OAuthPair(cfg) /\ cfg.Region # << >> /\ cfg.TokenFetcher
HasApiKey(cfg) == cfg.APIKey # << >>
ResolverRan == resolverCalls > 0 /\ authConfig.set

\* C17: with complete OAuth2 settings and a static API key, the resolver
\* calls the token fetcher and returns "Bearer <token>", never "ApiKey <key>";
\* when the fetch fails the resolver fails and returns no header.
C17_OAuthPrecedence ==
    (ResolverRan /\ OAuthComplete(authConfig) /\ HasApiKey(authConfig)) =>
        /\ authOut.fetched
        /\ authOut.header # <<"ApiKey ">> \o authConfig.APIKey
        /\ IF tokOutcome.ok
           THEN authOut.err = "" /\ authOut.header = <<"Bearer ">> \o tokOutcome.token
           ELSE authOut.err # "" /\ authOut.header = << >>

\* both credentials configured and the token fetch failed
C17_Witness ==
    /\ pc = "resolve" /\ ResolverRan
    /\ OAuthComplete(authConfig) /\ HasApiKey(authConfig)
    /\ ~tokOutcome.ok /\ authOut.err # ""

\* C18: with client id and secret present but the token fetcher or the auth
\* domain/region missing, the resolver fails with a configuration error,
\* returns no header (API key configured or not) and does not call the
\* token fetcher.
C18_IncompleteOAuthFails ==
    (ResolverRan /\ OAuthPair(authConfig)
       /\ (~authConfig.TokenFetcher \/ authConfig.Region = << >>)) =>
        /\ authOut.err \in {"tokenFetcher is required for OAuth authentication",
                             "region is required for OAuth authentication",
                             "authDomain is required for OAuth authentication"}
        /\ authOut.header = << >>
        /\ ~authOut.fetched /\ fetcherCalls = 0

\* the auth domain is missing while an API key is configured
C18_Witness ==
    /\ pc = "resolve" /\ ResolverRan /\ impl = "ts"
    /\ OAuthPair(authConfig) /\ authConfig.TokenFetcher /\ authConfig.Region = << >>
    /\ HasApiKey(authConfig) /\ authOut.err # ""

\* C19: without OAuth2 client id and secret and with a static key the
\* resolver returns "ApiKey <key>"; with complete OAuth2 settings and a
\* successful fetch it returns "Bearer <token>"; with nothing configured it
\* fails with "no authentication configured"; a success never comes with an
\* empty header.
C19_ResolverTable ==
    ResolverRan =>
        /\ ( authConfig.OAuthClientID = << >> /\ authConfig.OAuthClientSecret = << >>
             /\ HasApiKey(authConfig) ) =>
               authOut.err = "" /\ authOut.header = <<"ApiKey ">> \o authConfig.APIKey
        /\ (OAuthComplete(authConfig) /\ tokOutcome.ok) =>
               authOut.err = "" /\ authOut.header = <<"Bearer ">> \o tokOutcome.token
        /\ ( authConfig.OAuthClientID = << >> /\ authConfig.OAuthClientSecret = << >>
             /\ ~HasApiKey(authConfig) ) =>
               authOut.err = "no authentication configured"
        /\ authOut.err = "" => authOut.header # << >>

\* nothing at all is configured
C19_Witness ==
    /\ pc = "resolve" /\ ResolverRan
    /\ authConfig = [NilAuth EXCEPT !.set = TRUE]
    /\ authOut.err = "no authentication configured"

\* C20: when exactly one of client id and client secret is configured, the
\* resolver returns a configuration error, API key configured or not, and the
\* send ends with that error after one resolution and no network call.
C20_PartialOAuthFatal ==
    ( /\ pc \in {"await", "backoff", "done"} /\ ResolverRan
      /\ (authConfig.OAuthClientID = << >>) # (authConfig.OAuthClientSecret = << >>) ) =>
        /\ authOut.err # "" /\ authOut.header = << >>
        /\ pc = "done" /\ result.kind = "error" /\ result.err.kind = "auth"
        /\ resolverCalls = 1 /\ calls = 0

\* C30: clear removes the identity's entry, so that a get that follows with
\* no set in between misses; it leaves every other entry as it was, and on an
\* identity without entry it succeeds and changes nothing.
C30_ClearRemovesOnlyThatEntry ==
    /\ tokLast.op = "clear" =>
           /\ tokLast.ok
           /\ ~cache[LastKey].present
           /\ \A k \in CacheKeys \ {LastKey} : cache[k] = tokLast.before[k]
           /\ ~LastEntry.present => cache = tokLast.before
    /\ (tokLast.op = "get" /\ ~setLog[LastKey].set) => ~tokLast.ok

\* an entry is cleared while another identity holds one
C30_Witness ==
    /\ tokLast.op = "clear"
    /\ LastEntry.present /\ ~cache[LastKey].present
    /\ \E k \in CacheKeys \ {LastKey} : cache[k].present

\* ------------------------------------------------- exhaustion message
ExhaustedResult == pc = "done" /\ result.kind = "error" /\ result.err.kind = "exhausted"
NetFailedAttempts == { i \in 1..Len(outcomes) : outcomes[i].net # "none" }
LastOf(S) == CHOOSE i \in S : \A j \in S : j <= i

SentOutcomes == { i \in 1..Len(outcomes) : outcomes[i].sent }

\* C23: at most one network call of a send is in flight, and only while the
\* send awaits it; attempt k+1 and the backoff before it start only when the
\* outcomes of attempts 0..k are known.
C23_AttemptsSequential ==
    pc \in {"start", "backoff", "prepare", "await", "done"} =>
        /\ inflight => pc = "await"
        /\ calls = Cardinality(SentOutcomes) + (IF inflight THEN 1 ELSE 0)
        /\ calls = Len(wire)
        /\ pc \in {"backoff", "prepare", "await"} => Len(outcomes) = attempt
        /\ Len(outcomes) <= attempt + 1

\* the third attempt is in flight and two outcomes are known
C23_Witness ==
    /\ pc = "await" /\ inflight /\ attempt = 2
    /\ calls = 3 /\ Len(outcomes) = 2

\* ------------------------------------------------- per-attempt timeout
\* C24: an attempt that ends in the per-attempt timeout while the caller has
\* not cancelled counts as one failed attempt: with attempts left the send
\* goes on to the backoff and the next attempt, and on the last attempt it
\* ends in the exhaustion error, never in a cancellation.
C24_TimeoutIsTransient ==
    ( /\ pc \in {"backoff", "prepare", "await", "done"}
      /\ Len(outcomes) > 0 /\ outcomes[Len(outcomes)].net = "timeout"
      /\ ~cancelled ) =>
        LET n == Len(outcomes) IN
        /\ n <= maxRetries + 1
        /\ IF n <= maxRetries
           THEN \/ pc \in {"backoff", "prepare", "await"} /\ attempt = n
                \/ pc = "done" /\ authFailed
           ELSE /\ pc = "done" /\ result.kind = "error"
                /\ result.err.kind = "exhausted"
                /\ result.err.attempts = maxRetries + 1
                /\ result.err.net = "timeout"

\* the attempt after a timed-out one is on the wire
C24_Witness ==
    /\ pc = "await" /\ inflight /\ ~cancelled
    /\ Len(outcomes) = 1 /\ outcomes[1].net = "timeout"
    /\ calls = 2 /\ impl = "ts"

\* ------------------------------------------------------- backoff range
\* C28: for every attempt >= 0 and every base delay the backoff function
\* returns a value d with base * 2^attempt <= d < base * 2^attempt * 1.25,
\* large attempt values included.
C28_BackoffInRange ==
    boOut.set =>
        /\ Leq(Num(boBase, boAttempt), boOut)
        /\ Less(Num(4 * boOut.m, boOut.e), Num(5 * boBase, boAttempt))

\* ------------------------------------------- token request claims
\* the Basic credential of the configured client
BasicCredential(cfg) ==
    [has |-> TRUE, val |-> BasicAuth(cfg.OAuthClientID, cfg.OAuthClientSecret)]
\* an attempt that ended in a network error or a 5xx answer
FailedTransiently(o) ==
    o.net \in NetErrors \/ (o.net = "none" /\ o.status >= 500 /\ o.status <= 599)
\* every attempt of the latest token request ended in an outcome of kind K
TokenAttemptsAll(K(_)) ==
    /\ tokenSend.set
    /\ Len(tokenSend.outcomes) > 0
    /\ \A i \in 1..Len(tokenSend.outcomes) : K(tokenSend.outcomes[i])
FatalStatusOutcome(o) ==
    o.net = "none" /\ o.status # 200 /\ ~PolicyRetryableStatus(o.status)
\* the caller's send after a token request: no API request since, and the
\* send is over with the auth error once getAuthHeader has returned
OuterFailsWithoutRequest ==
    /\ depth = 1
    /\ pc \in {"resolved", "done"}
    /\ calls = tokenSend.apiCallsBefore
    /\ (pc = "done" => result = Failure(Err("auth", 0, "none", 0)))

\* C25: the cancellation signal of the outer send is the one the token fetch
\* observes: when it fires before or during the token request, the token
\* request ends at once (a backoff sleep stops at that instant), getToken
\* fails, nothing is cached and the outer send fails without an API request
C25_CancelReachesTokenFetch ==
    /\ (depth = 2 /\ sleepCancelAt >= 0) =>
          (pc = "done" /\ waited = sleepCancelAt /\ result.kind = "error")
    /\ (depth = 1 /\ tokenSend.set /\ ~tokenSend.cancelledBefore /\ tokenSend.cancelledAfter) =>
          /\ ~tokOutcome.ok
          /\ cache = tokenSend.cacheBefore
          /\ OuterFailsWithoutRequest

C27_AuthFailureNotRetried ==
    /\ (depth = 1 /\ TokenAttemptsAll(FatalStatusOutcome)) =>
          /\ tokenSend.calls = 1
          /\ OuterFailsWithoutRequest
    /\ (depth = 1 /\ TokenAttemptsAll(RetryableOutcome) /\ ~tokenSend.cancelledAfter) =>
          /\ tokenSend.calls = maxRetries + 1
          /\ OuterFailsWithoutRequest

\* ------------------------------------------------- concurrency claims
InRead(t) == threads[t].pc = "rlocked"
InWrite(t) == threads[t].pc \in {"locked", "locked2", "clearing"}
InSection(t) == InRead(t) \/ InWrite(t)
HoldsLock(t) == t \in rw.readers \/ rw.writer = t

\* C21: no set or clear runs inside the critical section of another
\* operation on the store, two gets may overlap, and the store is touched
\* only by a caller that holds the lock
C21_WritersExclusive ==
    pc = "conc" =>
        \A t \in Threads :
            /\ InSection(t) => HoldsLock(t)
            /\ InWrite(t) =>
                  /\ rw.writer = t
                  /\ \A u \in Threads \ {t} : ~InSection(u)

C21_Witness ==
    /\ pc = "conc"
    /\ \E t, u \in Threads : t # u /\ InRead(t) /\ InRead(u)

\* the entry one set of caller t's exchange leaves: its token with its expiry
WholeEntry(t) == Entry(ThreadToken(t), now + (ThreadExpiresIn(t) - 300) * Second)
OnlyGetToken == \A t \in Threads : threads[t].did \subseteq {"getToken"}
AllFinished == \A t \in Threads : threads[t].pc = "idle"
Stored(t) == threads[t].wrote # NoEntry

\* C22: after concurrent getToken calls for one identity on a cold or expired
\* cache, every token returned was issued by the endpoint and the cache holds
\* one whole entry written by a single set, never a mix of two writers' fields
C22_WholeEntryAfterRace ==
    (pc = "conc" /\ OnlyGetToken /\ AllFinished) =>
        /\ \A t \in Threads :
              threads[t].ret # << >> =>
                  \E u \in Threads : Stored(u) /\ threads[t].ret = ThreadToken(u)
        /\ \A t \in Threads : Stored(t) => threads[t].wrote = WholeEntry(t)
        /\ IF \E t \in Threads : Stored(t)
           THEN \E t \in Threads : Stored(t) /\ cache[ConcKey] = WholeEntry(t)
           ELSE cache[ConcKey] \in {NoEntry, StaleEntry}

C22_Witness ==
    /\ pc = "conc" /\ OnlyGetToken /\ AllFinished
    /\ \E t, u \in Threads :
          /\ t # u
          /\ Stored(t) /\ Stored(u)
          /\ threads[t].ret = ThreadToken(t)
          /\ threads[u].ret = ThreadToken(u)
          /\ cache[ConcKey] = WholeEntry(u)

\* ------------------------------------------- token lifetime claims
\* the latest operation was a set, and this is what it was called with
LastSet == setLog[LastKey]
JustSet == tokLast.op = "set" /\ LastSet.set /\ LastSet.t0 = tokLast.at
\* the latest operation answered from the cache
ServedFromCache ==
    tokLast.op \in {"get", "getToken"} /\ tokLast.ok /\ tokLast.exchanges = 0

C34_ShortTtlSkipped ==
    (impl = "ts" /\ JustSet) =>
        /\ LastSet.ttl <= 300 => cache = tokLast.before
        /\ cache # tokLast.before => cache[LastKey].expiresAt > tokLast.at
        /\ LastSet.ttl = 301 =>
               cache = [tokLast.before EXCEPT
                           ![LastKey] = Entry(LastSet.token, tokLast.at + 1 * Second)]

\* a 300-second set over a live entry of the same key
C34_Witness ==
    /\ impl = "ts" /\ JustSet
    /\ LastSet.ttl = 300
    /\ EntryLive(LastEntry, tokLast.at)
    /\ LastEntry.token # LastSet.token
    /\ cache = tokLast.before

Storable(expires_in) == IF impl = "go" THEN expires_in > 0 ELSE expires_in > 300

C40_NeverServedPastLifetime ==
    (ServedFromCache /\ LastSet.set /\ LastSet.ttl > 0 /\ LastSet.token = tokLast.token) =>
        tokLast.at < LastSet.t0 + LastSet.ttl * Second

\* a hit on a one-second token, whose buffer is half a second
C40_Witness ==
    /\ ServedFromCache
    /\ LastSet.set /\ LastSet.ttl = 1 /\ LastSet.token = tokLast.token
    /\ tokLast.at = LastSet.t0
    /\ LastEntry.expiresAt = LastSet.t0 + 1

TypeOK ==
    /\ impl \in Impl
    /\ pc \in {"start", "backoff", "prepare", "await", "done", "classify", "token", "resolve", "backoff_fn", "resolved", "conc"}
    /\ attempt \in 0..(MaxRetriesBound + 2)
    /\ calls \in 0..(MaxRetriesBound + 2)
    /\ cancelled \in BOOLEAN
    /\ inflight \in BOOLEAN
    /\ result.kind \in {"none", "response", "error"}
====
